---- MODULE Spec2Model ----
(***************************************************************************)
(* Model of the agent orchestration engine of the paper-reading agent:    *)
(* ConversationalPaperAgent (backend/agents/agent.py) and                 *)
(* OnDemandImageExtractor (backend/agents/image_extractor.py).            *)
(*                                                                         *)
(* One session object is modelled: its construction (fresh or restored),  *)
(* the first turn (start_session / start_session_stream), the user turns  *)
(* (send_message / send_message_stream) with the tool-call loop, and the  *)
(* tool dispatcher _execute_function.  The inference service, the figure  *)
(* detector, the page renderer, the file system and the profile store are *)
(* the environment: their answers are drawn nondeterministically.         *)
(***************************************************************************)
EXTENDS Integers, Sequences, FiniteSets, TLC

(***************************************************************************)
(* Bounds of the model.                                                    *)
(***************************************************************************)
MaxCalls == 2        \* function calls in one inference response
MaxTurns == 1        \* user turns after the first turn
MaxCatalog == 2      \* length of the figure catalog
MaxDetections == 1   \* detections in one detector answer
MaxRequests == 2     \* chat requests the server handles
MaxTimeout == 3      \* timeout_seconds of upload_file, in ticks
MaxElapsed == 5      \* ticks of the clock during an upload
MaxHistory == 22     \* entries of a transcript submitted to inference

(***************************************************************************)
(* Program constants.                                                      *)
(***************************************************************************)
max_iterations == 10           \* _handle_function_calls, send_message_stream
summary_max_iterations == 5    \* _generate_quick_scan_summary
NumPages == 1                  \* len(doc) of the PDF behind pdf_path

(***************************************************************************)
(* Python values.  None is the Python None of the string-valued fields;   *)
(* the empty string "" is a different value.                               *)
(***************************************************************************)
None == "None"
FallbackText == "I apologize, I couldn't generate a response."
NotAnInt == 0 - 1000   \* an element of image_indices that is not an integer

Truthy(s) == s # None /\ s # ""

(***************************************************************************)
(* dict.get(key, default) on an argument map (a record).                   *)
(***************************************************************************)
Get(args, key, default) == IF key \in DOMAIN args THEN args[key] ELSE default

(***************************************************************************)
(* Stage names.  get_stage_prompt is a dictionary lookup with '' for an   *)
(* unknown stage; the prompt texts are abstracted to "prompt:<id>".        *)
(***************************************************************************)
KnownStages == {"quick_scan", "methodology", "section_deep_dive"}

get_stage_prompt(stage_id) ==
    IF stage_id \in KnownStages THEN "prompt:" \o stage_id ELSE ""

(***************************************************************************)
(* Function calls an inference response can carry.  args_is_none is the   *)
(* case fc.args is None; args is then the empty map.                       *)
(***************************************************************************)
FC(name, args) == [name |-> name, args_is_none |-> FALSE, args |-> args]
FCNoArgs(name) == [name |-> name, args_is_none |-> TRUE, args |-> <<>>]

Req(p) == [page_number |-> p, description |-> "figure"]

ExecuteStepCalls ==
    { FC("execute_step", [previous_stage |-> p, next_stage |-> n, mode |-> m,
                          reason |-> "r"]) :
          p \in {"quick_scan", "methodology"},
          n \in {"quick_scan", "methodology", "section_deep_dive", "custom", ""},
          m \in {"qa", "transition"} }
    \cup
    { FC("execute_step", [previous_stage |-> p, next_stage |-> n, mode |-> m,
                          reason |-> "r", section_name |-> s]) :
          p \in {"quick_scan"},
          n \in {"methodology", "section_deep_dive"},
          m \in {"qa", "transition"},
          s \in {"Intro", ""} }
    \cup
    { FC("execute_step", [reason |-> "r"]),
      FC("execute_step", [mode |-> "qa", reason |-> "r"]),
      FCNoArgs("execute_step") }

OtherCalls ==
    { FC("extract_images", [images |-> <<>>]),
      FC("extract_images", [images |-> <<Req(1)>>]),
      FC("extract_images", [images |-> <<Req(NumPages + 1)>>]),
      FC("extract_images", [images |-> <<Req(0), Req(1)>>]),
      FCNoArgs("extract_images"),
      FC("display_images", [image_indices |-> <<>>, reasoning |-> "r"]),
      FC("display_images", [image_indices |-> <<0>>, reasoning |-> "r"]),
      FC("display_images", [image_indices |-> <<1, 0>>, reasoning |-> "r"]),
      FC("display_images", [image_indices |-> <<0, 7>>, reasoning |-> "r"]),
      FC("display_images", [image_indices |-> <<0 - 1>>, reasoning |-> "r"]),
      FC("display_images", [image_indices |-> <<NotAnInt>>, reasoning |-> "r"]),
      FCNoArgs("display_images"),
      FC("explain_images", [image_index |-> 0, question |-> "q"]),
      FC("explain_images", [image_index |-> 7, question |-> "q"]),
      FC("explain_images", [image_index |-> 0 - 1]),
      FCNoArgs("explain_images"),
      FC("web_search", [query |-> "q", context |-> "c"]),
      FC("web_search", [query |-> ""]),
      FCNoArgs("web_search"),
      FC("update_user_profile", [key_point |-> "k1"]),
      FC("update_user_profile", [key_point |-> "k2"]),
      FC("update_user_profile", [key_point |-> ""]),
      FCNoArgs("update_user_profile"),
      FC("generate_animation", [concept |-> "c", animation_html |-> "<div/>",
                                explanation |-> "e"]),
      FC("generate_animation", [concept |-> "c", animation_html |-> ""]),
      FCNoArgs("generate_animation"),
      FC("no_such_tool", [x |-> "y"]),
      FCNoArgs("no_such_tool") }

ToolCalls == ExecuteStepCalls \cup OtherCalls

(***************************************************************************)
(* OnDemandImageExtractor.                                                 *)
(*                                                                         *)
(* A catalog record keeps the fields of fig_data; the file name is the     *)
(* tuple of the parts the code formats into it.  A detection carries, next *)
(* to page, title and type, the outcome of cropping and writing it.        *)
(***************************************************************************)
CropOutcomes == {"ok", "invalid_region", "save_failed", "zero_byte"}

Detections ==
    [page : 1..(NumPages + 1), title : {"Fig"}, type : {"diagram"}, crop : CropOutcomes]

RECURSIVE SeqsUpTo(_, _)
SeqsUpTo(S, n) ==
    IF n = 0 THEN {<<>>}
    ELSE LET shorter == SeqsUpTo(S, n - 1)
         IN  shorter \cup { Append(q, x) : q \in {r \in shorter : Len(r) = n - 1}, x \in S }

Filename_NoCounter(page_num, count, fig_type) ==
    [stem |-> "paper", page |-> page_num, fig |-> 1, type |-> fig_type]

Filename(page_num, count, fig_type) ==
    [stem |-> "paper", page |-> page_num, fig |-> count + 1, type |-> fig_type]

FigData(det, count) ==
    [page |-> det.page, title |-> det.title, type |-> det.type,
     path |-> Filename(det.page, count, det.type),
     path_relative |-> Filename(det.page, count, det.type)]

Markdown(img) == [title |-> img.title, path |-> img.path_relative]

MarkdownOf(imgs) == [i \in 1..Len(imgs) |-> Markdown(imgs[i])]

(* _crop_and_save_batch, from the bounding box of a detection to the crop  *)
(* region.  A coordinate c is held in thousandths, as the integer          *)
(* Unit * c, so that the fractions of the 0-1 convention are integers;     *)
(* int() truncates towards zero.  The arithmetic is exact.                 *)
Unit == 1000

padding == 10

TruncDiv(a, b) == IF a >= 0 THEN a \div b ELSE 0 - ((0 - a) \div b)

MaxOf(q) == CHOOSE m \in { q[i] : i \in 1..Len(q) } : \A i \in 1..Len(q) : q[i] <= m

Larger(a, b) == IF a >= b THEN a ELSE b
Smaller(a, b) == IF a <= b THEN a ELSE b

(* The bounding box in pixels, <<x_min, y_min, x_max, y_max>>.             *)
BBoxToPixels_SameOrder(bbox, img_width, img_height) ==
    LET max_val == MaxOf(bbox) IN
    IF max_val <= Unit THEN
        << TruncDiv(bbox[1] * img_width, Unit), TruncDiv(bbox[2] * img_height, Unit),
           TruncDiv(bbox[3] * img_width, Unit), TruncDiv(bbox[4] * img_height, Unit) >>
    ELSE IF max_val <= 1000 * Unit THEN
        << TruncDiv(bbox[1] * img_width, 1000 * Unit),
           TruncDiv(bbox[2] * img_height, 1000 * Unit),
           TruncDiv(bbox[3] * img_width, 1000 * Unit),
           TruncDiv(bbox[4] * img_height, 1000 * Unit) >>
    ELSE
        << TruncDiv(bbox[1], Unit), TruncDiv(bbox[2], Unit),
           TruncDiv(bbox[3], Unit), TruncDiv(bbox[4], Unit) >>

BBoxToPixels(bbox, img_width, img_height) ==
    LET max_val == MaxOf(bbox) IN
    IF max_val <= Unit THEN
        << TruncDiv(bbox[1] * img_width, Unit), TruncDiv(bbox[2] * img_height, Unit),
           TruncDiv(bbox[3] * img_width, Unit), TruncDiv(bbox[4] * img_height, Unit) >>
    ELSE IF max_val <= 1000 * Unit THEN
        LET ymin == bbox[1]
            xmin == bbox[2]
            ymax == bbox[3]
            xmax == bbox[4]
        IN  << TruncDiv(xmin * img_width, 1000 * Unit),
               TruncDiv(ymin * img_height, 1000 * Unit),
               TruncDiv(xmax * img_width, 1000 * Unit),
               TruncDiv(ymax * img_height, 1000 * Unit) >>
    ELSE
        << TruncDiv(bbox[1], Unit), TruncDiv(bbox[2], Unit),
           TruncDiv(bbox[3], Unit), TruncDiv(bbox[4], Unit) >>

(* Padding and bounds checking.                                            *)
PadAndClamp_NoBounds(px, img_width, img_height) ==
    << px[1] - padding, px[2] - padding, px[3] + padding, px[4] + padding >>

PadAndClamp(px, img_width, img_height) ==
    << Larger(0, px[1] - padding), Larger(0, px[2] - padding),
       Smaller(img_width, px[3] + padding), Smaller(img_height, px[4] + padding) >>

ValidCropRegion(rect) == ~(rect[3] <= rect[1] \/ rect[4] <= rect[2])

CropRegion(bbox, img_width, img_height) ==
    LET px == BBoxToPixels(bbox, img_width, img_height)
        rect == PadAndClamp(px, img_width, img_height)
    IN  [pixels |-> px, rect |-> rect, valid |-> ValidCropRegion(rect)]

(* extract_images_batch, step 1 and 2: the pages requested, and those of   *)
(* them that are in range and render.                                      *)
PageRequests(images) == { Get(images[i], "page_number", 1) : i \in 1..Len(images) }

PageImages_NoRangeTest(images, render_fails) ==
    { p \in PageRequests(images) : p \notin render_fails }

PageImages(images, render_fails) ==
    { p \in PageRequests(images) : p >= 1 /\ p <= NumPages /\ p \notin render_fails }

(* _detect_figures_batch: an exception, an empty answer and a JSON decode  *)
(* error all give []; otherwise the detections on valid pages.             *)
DetectFiguresBatch(page_images, detector, detections) ==
    IF detector # "ok" THEN <<>>
    ELSE SelectSeq(detections, LAMBDA d : d.page \in page_images)

(* _crop_and_save_batch: st = [count, extracted, catalog].                 *)
CropAndSaveOne_Prepend(page_images, det, st) ==
    IF det.page \notin page_images \/ det.crop # "ok" THEN st
    ELSE [count     |-> st.count + 1,
          extracted |-> Append(st.extracted, FigData(det, st.count)),
          catalog   |-> <<FigData(det, st.count)>> \o st.catalog]

CropAndSaveOne_CountsSkipped(page_images, det, st) ==
    IF det.page \notin page_images THEN st
    ELSE IF det.crop # "ok" THEN [st EXCEPT !.count = @ + 1]
    ELSE [count     |-> st.count + 1,
          extracted |-> Append(st.extracted, FigData(det, st.count)),
          catalog   |-> Append(st.catalog, FigData(det, st.count))]

CropAndSaveOne(page_images, det, st) ==
    IF det.page \notin page_images \/ det.crop # "ok" THEN st
    ELSE [count     |-> st.count + 1,
          extracted |-> Append(st.extracted, FigData(det, st.count)),
          catalog   |-> Append(st.catalog, FigData(det, st.count))]

RECURSIVE CropAndSaveFrom(_, _, _, _)
CropAndSaveFrom(page_images, dets, i, st) ==
    IF i > Len(dets) THEN st
    ELSE CropAndSaveFrom(page_images, dets, i + 1,
                         CropAndSaveOne(page_images, dets[i], st))

CropAndSaveBatch_WholeCatalog(page_images, dets, count, catalog) ==
    CropAndSaveFrom(page_images, dets, 1,
                    [count |-> count, extracted |-> catalog, catalog |-> catalog])

CropAndSaveBatch(page_images, dets, count, catalog) ==
    CropAndSaveFrom(page_images, dets, 1,
                    [count |-> count, extracted |-> <<>>, catalog |-> catalog])

ExtractFailure_CountsAttempt(msg, count, catalog, detector_calls) ==
    [result  |-> [success |-> FALSE, extracted_images |-> <<>>, message |-> msg],
     count   |-> count + 1,
     catalog |-> catalog,
     detector_calls |-> detector_calls]

ExtractFailure(msg, count, catalog, detector_calls) ==
    [result  |-> [success |-> FALSE, extracted_images |-> <<>>, message |-> msg],
     count   |-> count,
     catalog |-> catalog,
     detector_calls |-> detector_calls]

(* extract_images_batch: ext holds the environment's answers for the call. *)
(* detector_calls counts the calls of _detect_figures_batch it made.       *)
ExtractImagesBatch(images, count, catalog, ext) ==
    IF images = <<>> THEN
        ExtractFailure("No images requested for extraction", count, catalog, 0)
    ELSE IF ext.open_raises THEN
        ExtractFailure("Error extracting images", count, catalog, 0)
    ELSE LET page_images == PageImages(images, ext.render_fails) IN
    IF page_images = {} THEN
        ExtractFailure("No valid pages to render", count, catalog, 0)
    ELSE LET all_detections ==
                 DetectFiguresBatch(page_images, ext.detector, ext.detections) IN
    IF all_detections = <<>> THEN
        ExtractFailure("Could not detect any figures matching the descriptions",
                       count, catalog, 1)
    ELSE LET st == CropAndSaveBatch(page_images, all_detections, count, catalog) IN
    IF st.extracted # <<>> THEN
        [result  |-> [success |-> TRUE,
                      extracted_images |-> st.extracted,
                      markdown_images |-> MarkdownOf(st.extracted),
                      message |-> "Successfully extracted"],
         count   |-> st.count,
         catalog |-> st.catalog,
         detector_calls |-> 1]
    ELSE
        ExtractFailure("Failed to crop any figures", st.count, st.catalog, 1)

(***************************************************************************)
(* The profile store: add_user_key_point (database.py).                    *)
(***************************************************************************)
InSeq(x, q) == \E i \in 1..Len(q) : q[i] = x

AddUserKeyPointAdds(key_point, db_key_points) == ~InSeq(key_point, db_key_points)

AddUserKeyPoint(key_point, db_key_points) ==
    IF ~InSeq(key_point, db_key_points) THEN Append(db_key_points, key_point)
    ELSE db_key_points

(***************************************************************************)
(* The tool dispatcher, ConversationalPaperAgent._execute_function.        *)
(*                                                                         *)
(* S is the session state the dispatcher reads and writes:                 *)
(*   stage, section        current_stage_id, current_section              *)
(*   lists                 the list objects, by identity                   *)
(*   agent_images          the list self.extracted_images refers to        *)
(*   extractor_images      the list image_extractor.extracted_images       *)
(*                         refers to                                       *)
(*   count                 image_extractor.extraction_count                *)
(*   key_points            user_profile['key_points']                      *)
(*   db_key_points         the key points of the stored profile            *)
(*   has_callback          add_key_point_callback is not None              *)
(* ext holds the environment's answers.  The value is [result, S].         *)
(***************************************************************************)
EffectiveArgs(fc) == IF fc.args_is_none THEN <<>> ELSE fc.args

Error(msg) == [success |-> FALSE, error |-> msg]

ExtractImagesTool_PrivateCopy(args, S, ext) ==
    LET r == ExtractImagesBatch(Get(args, "images", <<>>), S.count,
                                S.lists[S.extractor_images], ext)
        copy == IF S.extractor_images = "own" THEN "restored" ELSE "own"
    IN  [result |-> r.result,
         S |-> [S EXCEPT !.count = r.count,
                         !.lists[copy] = r.catalog,
                         !.extractor_images = copy]]

ExtractImagesTool(args, S, ext) ==
    LET r == ExtractImagesBatch(Get(args, "images", <<>>), S.count,
                                S.lists[S.extractor_images], ext)
    IN  [result |-> r.result,
         S |-> [S EXCEPT !.count = r.count,
                         !.lists[S.extractor_images] = r.catalog]]

DisplayImagesMarkdown_Reversed(image_indices, images) ==
    LET valid == SelectSeq(image_indices, LAMBDA idx : 0 <= idx /\ idx < Len(images))
    IN  [i \in 1..Len(valid) |-> Markdown(images[valid[Len(valid) + 1 - i] + 1])]

DisplayImagesMarkdown(image_indices, images) ==
    LET valid == SelectSeq(image_indices, LAMBDA idx : 0 <= idx /\ idx < Len(images))
    IN  [i \in 1..Len(valid) |-> Markdown(images[valid[i] + 1])]

DisplayImagesTool(args, S) ==
    LET image_indices == Get(args, "image_indices", <<>>)
        images == S.lists[S.agent_images]
    IN  IF InSeq(NotAnInt, image_indices)
        THEN [result |-> Error("TypeError"), S |-> S]
        ELSE [result |-> [success |-> TRUE,
                          count |-> Len(DisplayImagesMarkdown(image_indices, images)),
                          markdown_images |-> DisplayImagesMarkdown(image_indices, images),
                          instruction |-> "Include these images"],
              S |-> S]

ExplainImagesTool(args, S, ext) ==
    LET image_index == Get(args, "image_index", 0)
        images == S.lists[S.agent_images]
    IN  IF image_index < 0 \/ image_index >= Len(images)
        THEN [result |-> Error("Invalid image index"), S |-> S]
        ELSE IF ext.explain_raises
        THEN [result |-> Error("Failed to explain"), S |-> S]
        ELSE [result |-> [success |-> TRUE,
                          image_title |-> images[image_index + 1].title,
                          question |-> Get(args, "question", "What does this image show?"),
                          explanation |-> "explanation",
                          instruction |-> "Use this explanation"],
              S |-> S]

WebSearchTool(args, S, ext) ==
    IF ~Truthy(Get(args, "query", ""))
    THEN [result |-> Error("No search query provided"), S |-> S]
    ELSE IF ext.search = "raise"
    THEN [result |-> Error("search raised"), S |-> S]
    ELSE IF ext.search = "fail"
    THEN [result |-> [success |-> FALSE, error |-> "search failed",
                      answer |-> "Search failed", sources |-> <<>>],
          S |-> S]
    ELSE [result |-> [success |-> TRUE, answer |-> "answer", sources |-> <<>>,
                      instruction |-> "Use this information"],
          S |-> S]

UpdateUserProfileTool_NoEmptyCheck(args, S, ext) ==
    LET key_point == Get(args, "key_point", "") IN
    IF ~S.has_callback
    THEN [result |-> Error("Profile update not available"), S |-> S]
    ELSE IF ext.db_raises
    THEN [result |-> Error("database error"), S |-> S]
    ELSE IF AddUserKeyPointAdds(key_point, S.db_key_points)
    THEN [result |-> [success |-> TRUE, message |-> "Added key insight"],
          S |-> [S EXCEPT !.db_key_points = AddUserKeyPoint(key_point, @),
                          !.key_points = IF InSeq(key_point, @) THEN @
                                         ELSE Append(@, key_point)]]
    ELSE [result |-> [success |-> TRUE, message |-> "Key insight already recorded"],
          S |-> S]

UpdateUserProfileTool(args, S, ext) ==
    LET key_point == Get(args, "key_point", "") IN
    IF ~Truthy(key_point)
    THEN [result |-> Error("No key point provided"), S |-> S]
    ELSE IF ~S.has_callback
    THEN [result |-> Error("Profile update not available"), S |-> S]
    ELSE IF ext.db_raises
    THEN [result |-> Error("database error"), S |-> S]
    ELSE IF AddUserKeyPointAdds(key_point, S.db_key_points)
    THEN [result |-> [success |-> TRUE, message |-> "Added key insight"],
          S |-> [S EXCEPT !.db_key_points = AddUserKeyPoint(key_point, @),
                          !.key_points = IF InSeq(key_point, @) THEN @
                                         ELSE Append(@, key_point)]]
    ELSE [result |-> [success |-> TRUE, message |-> "Key insight already recorded"],
          S |-> S]

GenerateAnimationTool_NoEmptyCheck(args, S) ==
    [result |-> [success |-> TRUE,
                 concept |-> Get(args, "concept", ""),
                 content |-> <<Get(args, "explanation", ""), "<<<ANIMATION_START>>>",
                               Get(args, "animation_html", ""), "<<<ANIMATION_END>>>">>,
                 instruction |-> "Include the content above"],
     S |-> S]

GenerateAnimationTool(args, S) ==
    IF ~Truthy(Get(args, "animation_html", ""))
    THEN [result |-> Error("No animation HTML provided"), S |-> S]
    ELSE [result |-> [success |-> TRUE,
                      concept |-> Get(args, "concept", ""),
                      content |-> <<Get(args, "explanation", ""), "<<<ANIMATION_START>>>",
                                    args.animation_html, "<<<ANIMATION_END>>>">>,
                      instruction |-> "Include the content above"],
          S |-> S]

(* execute_step: the stage and the section the call leaves behind.         *)
ExecuteStepNextStage(args) == Get(args, "next_stage", "quick_scan")

ExecuteStepStage(stage, args) == ExecuteStepNextStage(args)

ExecuteStepSection_NoStageTest(section, args) ==
    IF Truthy(Get(args, "section_name", None)) THEN args.section_name ELSE section

ExecuteStepSection(section, args) ==
    IF ExecuteStepNextStage(args) = "section_deep_dive"
       /\ Truthy(Get(args, "section_name", None))
    THEN args.section_name
    ELSE section

ExecuteStepResult(stage, args) ==
    LET previous_stage == Get(args, "previous_stage",
                              IF Truthy(stage) THEN stage ELSE "quick_scan")
        next_stage == ExecuteStepNextStage(args)
        base == [success |-> TRUE,
                 mode |-> IF Get(args, "mode", "transition") = "qa"
                          THEN "qa" ELSE "transition",
                 previous_stage |-> previous_stage,
                 next_stage |-> next_stage,
                 reason |-> Get(args, "reason", ""),
                 action_required |-> IF Get(args, "mode", "transition") = "qa"
                                     THEN "answer directly"
                                     ELSE "generate the full stage content",
                 stage_prompt |-> get_stage_prompt(next_stage)]
    IN  IF Get(args, "mode", "transition") # "qa"
           /\ Truthy(Get(args, "section_name", None))
        THEN [k \in DOMAIN base \cup {"section_name"} |->
                 IF k = "section_name" THEN args.section_name ELSE base[k]]
        ELSE base

ExecuteStepTool(args, S) ==
    [result |-> ExecuteStepResult(S.stage, args),
     S |-> [S EXCEPT !.stage = ExecuteStepStage(S.stage, args),
                     !.section = ExecuteStepSection(S.section, args)]]

UnknownFunction_MessageKey(S) ==
    [result |-> [success |-> FALSE, message |-> "Unknown function"], S |-> S]

UnknownFunction(S) == [result |-> Error("Unknown function"), S |-> S]

ExecuteFunction(fc, S, ext) ==
    LET args == EffectiveArgs(fc) IN
    CASE fc.name = "extract_images"      -> ExtractImagesTool(args, S, ext)
      [] fc.name = "display_images"      -> DisplayImagesTool(args, S)
      [] fc.name = "explain_images"      -> ExplainImagesTool(args, S, ext)
      [] fc.name = "web_search"          -> WebSearchTool(args, S, ext)
      [] fc.name = "update_user_profile" -> UpdateUserProfileTool(args, S, ext)
      [] fc.name = "generate_animation"  -> GenerateAnimationTool(args, S)
      [] fc.name = "execute_step"        -> ExecuteStepTool(args, S)
      [] OTHER                           -> UnknownFunction(S)

(***************************************************************************)
(* _build_system_prompt.  The instructions are the record of their parts:  *)
(* the profile context, the rendering of the reading plan, the section of  *)
(* the current stage (None when the stage is unset or has no prompt), the  *)
(* section being explored, and the listing of self.extracted_images.       *)
(***************************************************************************)
BuildExtractedImagesContext(images) ==
    [i \in 1..Len(images) |->
        [index |-> i - 1, title |-> images[i].title, page |-> images[i].page,
         path |-> images[i].path_relative]]

BuildSystemPrompt(S, plan) ==
    LET staged == Truthy(S.stage) /\ get_stage_prompt(S.stage) # "" IN
    [kind    |-> "meta",
     profile |-> S.key_points,
     plan    |-> plan,
     stage   |-> IF staged THEN S.stage ELSE None,
     section |-> IF staged /\ S.stage = "section_deep_dive" /\ Truthy(S.section)
                 THEN S.section ELSE None,
     images  |-> BuildExtractedImagesContext(S.lists[S.agent_images])]

(* The system prompt of _generate_quick_scan_summary: a text built once,   *)
(* before the loop, from the summary prompt and the profile context.       *)
SummarySystemPrompt ==
    [kind |-> "quick_scan_summary", profile |-> <<>>, plan |-> <<>>,
     stage |-> None, section |-> None, images |-> <<>>]

NoInstructions ==
    [kind |-> "none", profile |-> <<>>, plan |-> <<>>, stage |-> None,
     section |-> None, images |-> <<>>]

(* The instructions of the request that follows a round of tool calls of   *)
(* the loop of kind k, S being the session state the round left.           *)
InstructionsAfterRound_BeforeLastCall(k, S, plan) ==
    IF k = "start_session_stream" THEN SummarySystemPrompt
    ELSE [BuildSystemPrompt(S, plan) EXCEPT
              !.stage = IF S.stage = "methodology" THEN "quick_scan" ELSE @,
              !.images = IF @ = <<>> THEN @ ELSE SubSeq(@, 1, Len(@) - 1)]

InstructionsAfterRound(k, S, plan) ==
    IF k = "start_session_stream" THEN SummarySystemPrompt
    ELSE BuildSystemPrompt(S, plan)

(***************************************************************************)
(* Inference responses.  candidates is "none" (no candidate), "no_content" *)
(* (candidates[0].content is None) or "content"; text_parts are the texts  *)
(* of the parts of the content; ncalls is len(response.function_calls).    *)
(* The function calls are parts of the content.  Which calls they are is   *)
(* drawn when the loop reaches each of them.                               *)
(***************************************************************************)
TextParts == {<<>>, <<"answer">>}

Responses ==
    { [candidates |-> "none", text_parts |-> <<>>, ncalls |-> 0],
      [candidates |-> "no_content", text_parts |-> <<>>, ncalls |-> 0] }
    \cup
    [candidates : {"content"}, text_parts : TextParts, ncalls : 0..MaxCalls]

NoResponse == [candidates |-> "none", text_parts |-> <<>>, ncalls |-> 0]

RECURSIVE JoinText(_)
JoinText(parts) ==
    IF Len(parts) = 1 THEN parts[1]
    ELSE parts[1] \o " " \o JoinText(Tail(parts))

(* _extract_text_response: [raised, text].  candidates[0].content.parts is *)
(* an attribute access on None when the candidate has no content.          *)
ExtractTextResponse(r) ==
    IF r.candidates = "none" THEN [raised |-> FALSE, text |-> FallbackText]
    ELSE IF r.candidates = "no_content" THEN [raised |-> TRUE, text |-> ""]
    ELSE IF r.text_parts = <<>> /\ r.ncalls = 0
    THEN [raised |-> FALSE, text |-> FallbackText]
    ELSE LET text_parts == SelectSeq(r.text_parts, Truthy)
         IN  IF text_parts = <<>> THEN [raised |-> FALSE, text |-> FallbackText]
             ELSE [raised |-> FALSE, text |-> JoinText(text_parts)]

(***************************************************************************)
(* The state of one session.                                               *)
(***************************************************************************)
VARIABLES
    is_restored,             \* _is_restored
    conversation_history,    \* conversation_history: <<[role, content]>>
    status_callback,         \* None, "caller" or "streaming"
    current_stage_id,        \* current_stage_id, None when unset
    current_section,         \* current_section, None when unset
    key_points,              \* user_profile['key_points']
    db_key_points,           \* key_points of the stored user profile
    has_callback,            \* add_key_point_callback is not None
    lists,                   \* the list objects: "own" and "restored"
    agent_images,            \* the list self.extracted_images refers to
    extractor_images,        \* the list image_extractor.extracted_images refers to
    extraction_count         \* image_extractor.extraction_count

VARIABLES
    pc,                      \* where the session's caller is
    kind,                    \* the method that runs the tool-call loop
    iteration,               \* iteration of the tool-call loop
    response,                \* the response the loop holds
    call_idx,                \* calls of the response already dispatched
    function_response_parts, \* names of the tool responses of this round
    inference_calls,         \* generate_content calls issued in this turn
    dispatch_rounds,         \* rounds of tool dispatch begun in this turn
    exec_steps,              \* execute_step calls dispatched in this turn
    original_callback,       \* send_message_stream's saved callback
    outcome,                 \* how the last turn ended
    turns                    \* user turns begun

VARIABLES
    plan_state,              \* the plan thread of start_session_stream
    plan_result,             \* reading_plan returned by the plan thread
    summary_result           \* what the summary thread returned

VARIABLES
    handlers                 \* the chat requests in progress, by request

VARIABLES
    reading_plan,            \* reading_plan
    system_instruction       \* system_instruction of the inference request in
                             \* flight

VARIABLES
    contents,                \* the contents _build_contents last returned
    crop,                    \* the detection _crop_and_save_batch last handled
    upload                   \* GeminiProvider.upload_file: caller and worker

VARIABLES
    parsed                   \* the texts the detector and the plan generator
                             \* last answered with

VARIABLES
    reading_sessions,        \* app.reading_sessions: the agents registered for
                             \* the paper, at most one
    agents,                  \* the agents constructed for the paper, by identity
    db                       \* the rows of the paper in the tables papers,
                             \* messages and reading_sessions

VARIABLES
    last_call,               \* the function call last recorded: the one
                             \* dispatched, or the one that ended the turn
    last_result,             \* the result of the call last dispatched
    last_ext,                \* the environment's answers to the extract_images
                             \* call last dispatched
    detector_called          \* that call reached the figure detector

sessionVars == <<is_restored, conversation_history, status_callback,
                 current_stage_id, current_section, key_points, db_key_points,
                 has_callback, lists, agent_images, extractor_images,
                 extraction_count>>
turnVars == <<pc, kind, iteration, response, call_idx, function_response_parts,
              inference_calls, dispatch_rounds, exec_steps, original_callback,
              outcome, turns>>
bootVars == <<plan_state, plan_result, summary_result>>
obsVars == <<last_call, last_result, last_ext, detector_called>>
contextVars == <<reading_plan, system_instruction>>
ioVars == <<contents, crop, upload>>
serverVars == <<reading_sessions, agents, db>>
envVars == <<parsed, serverVars>>
vars == <<sessionVars, turnVars, bootVars, obsVars, handlers, contextVars, ioVars,
          envVars>>

SessionState ==
    [stage |-> current_stage_id, section |-> current_section, lists |-> lists,
     agent_images |-> agent_images, extractor_images |-> extractor_images,
     count |-> extraction_count, key_points |-> key_points,
     db_key_points |-> db_key_points, has_callback |-> has_callback]

Catalog == lists[extractor_images]
AgentCatalog == lists[agent_images]

Msg(role, content) == [role |-> role, content |-> content]

NoOutcome == [status |-> "none", value |-> "", by |-> ""]
Returned(text) == [status |-> "returned", value |-> text, by |-> ""]
Raised(by) == [status |-> "raised", value |-> "", by |-> by]

NoCall == FCNoArgs("none")
NoResult == [success |-> TRUE]
NoExt == [open_raises |-> FALSE, render_fails |-> {}, detector |-> "ok",
          detections |-> <<>>, explain_raises |-> FALSE, search |-> "ok",
          db_raises |-> FALSE]

NoContents == <<>>
NoCrop == [applied |-> FALSE]
NoUpload == [pc |-> "none"]

(* No text yet: the empty text.                                            *)
NoParsed == [detector_text |-> <<>>, plan_text |-> <<>>]

NoServer ==
    /\ reading_sessions = {}
    /\ agents = <<>>
    /\ db = [papers |-> FALSE, messages |-> <<>>, reading_sessions |-> FALSE]

NoIo ==
    /\ contents = NoContents
    /\ crop = NoCrop
    /\ upload = NoUpload
    /\ parsed = NoParsed
    /\ NoServer

(***************************************************************************)
(* Construction: ConversationalPaperAgent.__init__ and                     *)
(* OnDemandImageExtractor.__init__.  A restored session is given the       *)
(* persisted messages and the persisted catalog.                           *)
(***************************************************************************)
RestoredRecord ==
    [page |-> 1, title |-> "Fig", type |-> "diagram",
     path |-> Filename(1, 0, "diagram"), path_relative |-> Filename(1, 0, "diagram")]

RestoredHistories ==
    { <<>>, <<Msg("assistant", "summary"), Msg("user", "question")>> }

RestoredImages == { <<>>, <<RestoredRecord>> }

Construct(restored_history, restored_images, callback, key_point_callback, profile) ==
    /\ is_restored = (restored_history # <<>> \/ restored_images # <<>>)
    /\ conversation_history = restored_history
    /\ status_callback = callback
    /\ current_stage_id = None
    /\ current_section = None
    /\ key_points = profile
    /\ db_key_points = profile
    /\ has_callback = key_point_callback
    /\ lists = [own |-> <<>>, restored |-> restored_images]
    /\ extractor_images = IF restored_images # <<>> THEN "restored" ELSE "own"
    /\ agent_images = IF restored_images # <<>> THEN "restored" ELSE "own"
    /\ extraction_count = 0
    /\ pc = "constructed"
    /\ kind = "none"
    /\ iteration = 0
    /\ response = NoResponse
    /\ call_idx = 0
    /\ function_response_parts = <<>>
    /\ inference_calls = 0
    /\ dispatch_rounds = 0
    /\ exec_steps = 0
    /\ original_callback = None
    /\ outcome = NoOutcome
    /\ turns = 0
    /\ plan_state = "idle"
    /\ plan_result = <<>>
    /\ summary_result = NoOutcome
    /\ last_call = NoCall
    /\ last_result = NoResult
    /\ last_ext = NoExt
    /\ detector_called = FALSE
    /\ reading_plan = <<>>
    /\ system_instruction = NoInstructions

Init ==
    /\ \E h \in RestoredHistories, imgs \in RestoredImages :
           Construct(h, imgs, None, TRUE, <<>>)
    /\ handlers = <<>>
    /\ NoIo

(***************************************************************************)
(* The first turn.                                                         *)
(***************************************************************************)
RECURSIVE LastAssistant(_)
LastAssistant(history) ==
    IF history = <<>> THEN ""
    ELSE IF history[Len(history)].role = "assistant" THEN history[Len(history)].content
    ELSE LastAssistant(SubSeq(history, 1, Len(history) - 1))

RestoredBranch == is_restored /\ conversation_history # <<>>

(* The stage the first turn starts in.                                     *)
StartStage_RestoredUnset(restored_branch) ==
    IF restored_branch THEN None ELSE "quick_scan"

StartStage(restored_branch) == "quick_scan"

BeginLoop(k) ==
    /\ kind' = k
    /\ pc' = "await"
    /\ iteration' = 0
    /\ response' = NoResponse
    /\ call_idx' = 0
    /\ function_response_parts' = <<>>
    /\ inference_calls' = 1
    /\ dispatch_rounds' = 0
    /\ exec_steps' = 0
    /\ outcome' = NoOutcome

(* start_session / start_session_stream of a restored session.             *)
StartSessionRestored ==
    /\ pc = "constructed"
    /\ RestoredBranch
    /\ current_stage_id' = StartStage(TRUE)
    /\ pc' = "idle"
    /\ outcome' = Returned(LastAssistant(conversation_history))
    /\ UNCHANGED <<is_restored, conversation_history, status_callback,
                   current_section, key_points, db_key_points, has_callback,
                   lists, agent_images, extractor_images, extraction_count>>
    /\ UNCHANGED <<kind, iteration, response, call_idx, function_response_parts,
                   inference_calls, dispatch_rounds, exec_steps,
                   original_callback, turns>>
    /\ UNCHANGED <<bootVars, obsVars>>
    /\ UNCHANGED <<handlers, reading_plan, ioVars, envVars>>
    /\ UNCHANGED system_instruction

(* start_session of a fresh session, up to the first inference call of     *)
(* _generate_response.                                                     *)
StartSession ==
    /\ pc = "constructed"
    /\ ~RestoredBranch
    /\ current_stage_id' = StartStage(FALSE)
    /\ BeginLoop("start_session")
    /\ UNCHANGED <<is_restored, conversation_history, status_callback,
                   current_section, key_points, db_key_points, has_callback,
                   lists, agent_images, extractor_images, extraction_count>>
    /\ UNCHANGED <<original_callback, turns>>
    /\ UNCHANGED <<bootVars, obsVars>>
    /\ UNCHANGED <<handlers, reading_plan, ioVars, envVars>>
    /\ system_instruction' =
           BuildSystemPrompt([SessionState EXCEPT !.stage = StartStage(FALSE)],
                             reading_plan)

(* start_session_stream of a fresh session: the summary thread is at its   *)
(* first inference call, the plan thread is running.                       *)
StartSessionStream ==
    /\ pc = "constructed"
    /\ ~RestoredBranch
    /\ current_stage_id' = StartStage(FALSE)
    /\ BeginLoop("start_session_stream")
    /\ plan_state' = "running"
    /\ UNCHANGED <<is_restored, conversation_history, status_callback,
                   current_section, key_points, db_key_points, has_callback,
                   lists, agent_images, extractor_images, extraction_count>>
    /\ UNCHANGED <<original_callback, turns>>
    /\ UNCHANGED <<plan_result, summary_result, obsVars>>
    /\ UNCHANGED <<handlers, reading_plan, ioVars, envVars>>
    /\ system_instruction' = SummarySystemPrompt

(***************************************************************************)
(* The user turns: send_message and send_message_stream, up to the first   *)
(* inference call.                                                         *)
(***************************************************************************)
SendMessage ==
    /\ pc = "idle"
    /\ turns < MaxTurns
    /\ turns' = turns + 1
    /\ BeginLoop("send_message")
    /\ UNCHANGED <<sessionVars, original_callback, bootVars, obsVars>>
    /\ UNCHANGED <<handlers, reading_plan, ioVars, envVars>>
    /\ system_instruction' = BuildSystemPrompt(SessionState, reading_plan)

SendMessageStream ==
    /\ pc = "idle"
    /\ turns < MaxTurns
    /\ turns' = turns + 1
    /\ original_callback' = status_callback
    /\ status_callback' = "streaming"
    /\ BeginLoop("send_message_stream")
    /\ UNCHANGED <<is_restored, conversation_history, current_stage_id,
                   current_section, key_points, db_key_points, has_callback,
                   lists, agent_images, extractor_images, extraction_count>>
    /\ UNCHANGED <<bootVars, obsVars>>
    /\ UNCHANGED <<handlers, reading_plan, ioVars, envVars>>
    /\ system_instruction' = BuildSystemPrompt(SessionState, reading_plan)

(***************************************************************************)
(* The environment's answers to one tool call.                             *)
(***************************************************************************)
DefaultExt == NoExt

ExtractExts ==
    { [DefaultExt EXCEPT !.open_raises = TRUE] }
    \cup { [DefaultExt EXCEPT !.detector = d] : d \in {"raise", "empty", "bad_json"} }
    \cup { [DefaultExt EXCEPT !.render_fails = rf, !.detections = ds] :
               rf \in SUBSET (1..NumPages),
               ds \in SeqsUpTo(Detections, MaxDetections) }

ExtChoices(fc) ==
    CASE fc.name = "extract_images" ->
             IF PageImages(Get(EffectiveArgs(fc), "images", <<>>), {}) = {}
             THEN { [DefaultExt EXCEPT !.open_raises = b] : b \in BOOLEAN }
             ELSE ExtractExts
      [] fc.name = "explain_images" ->
             { [DefaultExt EXCEPT !.explain_raises = b] : b \in BOOLEAN }
      [] fc.name = "web_search" ->
             { [DefaultExt EXCEPT !.search = x] : x \in {"ok", "fail", "raise"} }
      [] fc.name = "update_user_profile" ->
             { [DefaultExt EXCEPT !.db_raises = b] : b \in BOOLEAN }
      [] OTHER -> { DefaultExt }

(***************************************************************************)
(* The tool-call loop: _handle_function_calls (send_message and            *)
(* start_session, through _generate_response), the loop of                 *)
(* send_message_stream and the loop of _generate_quick_scan_summary.       *)
(***************************************************************************)
MaxIterations(k) ==
    IF k = "start_session_stream" THEN summary_max_iterations ELSE max_iterations

SetSessionState(S) ==
    /\ current_stage_id' = S.stage
    /\ current_section' = S.section
    /\ lists' = S.lists
    /\ agent_images' = S.agent_images
    /\ extractor_images' = S.extractor_images
    /\ extraction_count' = S.count
    /\ key_points' = S.key_points
    /\ db_key_points' = S.db_key_points
    /\ has_callback' = S.has_callback

(* The turn ends with an exception raised by `by`.                         *)
TurnRaises(by) ==
    /\ outcome' = Raised(by)
    /\ pc' = IF kind = "start_session" THEN "failed" ELSE "idle"
    /\ UNCHANGED <<sessionVars, bootVars>>

(* The transcript after a turn of kind k that answered with text: the      *)
(* first turn appends the answer, a user turn the user message and then    *)
(* the answer.                                                             *)
AppendTurn_AnswerOnly(history, k, text) ==
    Append(history, Msg("assistant", text))

AppendTurn(history, k, text) ==
    IF k = "start_session"
    THEN Append(history, Msg("assistant", text))
    ELSE history \o <<Msg("user", "question"), Msg("assistant", text)>>

(* After the loop: _extract_text_response, then the appends to the         *)
(* transcript.                                                             *)
FinishTurn(r) ==
    LET t == ExtractTextResponse(r) IN
    IF kind = "start_session_stream" THEN
        /\ summary_result' = IF t.raised THEN Raised("extract_text") ELSE Returned(t.text)
        /\ pc' = "join"
        /\ UNCHANGED <<sessionVars, outcome, plan_state, plan_result>>
    ELSE IF t.raised THEN TurnRaises("extract_text")
    ELSE
        /\ conversation_history' = AppendTurn(conversation_history, kind, t.text)
        /\ status_callback' = IF kind = "send_message_stream"
                              THEN original_callback ELSE status_callback
        /\ outcome' = Returned(t.text)
        /\ pc' = "idle"
        /\ UNCHANGED <<is_restored, current_stage_id, current_section, key_points,
                       db_key_points, has_callback, lists, agent_images,
                       extractor_images, extraction_count, bootVars>>

(* generate_content raises.                                                *)
InferenceRaises ==
    /\ pc = "await"
    /\ IF kind = "start_session_stream"
       THEN /\ summary_result' = Raised("inference")
            /\ pc' = "join"
            /\ UNCHANGED <<sessionVars, outcome, plan_state, plan_result>>
       ELSE TurnRaises("inference")
    /\ UNCHANGED <<kind, iteration, response, call_idx, function_response_parts,
                   inference_calls, dispatch_rounds, exec_steps,
                   original_callback, turns, obsVars>>
    /\ UNCHANGED <<handlers, reading_plan, ioVars, envVars>>
    /\ system_instruction' = NoInstructions

(* generate_content returns r: the head of the while loop.                 *)
ReceiveResponse(r) ==
    /\ pc = "await"
    /\ response' = r
    /\ IF iteration < MaxIterations(kind) /\ r.ncalls > 0
       THEN /\ iteration' = iteration + 1
            /\ dispatch_rounds' = dispatch_rounds + 1
            /\ call_idx' = 0
            /\ function_response_parts' = <<>>
            /\ pc' = "dispatch"
            /\ UNCHANGED <<sessionVars, bootVars, outcome>>
       ELSE /\ iteration' = IF iteration < MaxIterations(kind)
                            THEN iteration + 1 ELSE iteration
            /\ FinishTurn(r)
            /\ UNCHANGED <<dispatch_rounds, call_idx, function_response_parts>>
    /\ UNCHANGED <<kind, inference_calls, exec_steps, original_callback, turns,
                   obsVars>>
    /\ UNCHANGED <<handlers, reading_plan, ioVars, envVars>>
    /\ system_instruction' = NoInstructions

(* The status message of a call is built from fc.args.get(...) for         *)
(* web_search, whatever fc.args is.                                        *)
StatusMessageRaises(fc) == fc.name = "web_search" /\ fc.args_is_none

StatusMessageBuilt(k, callback) ==
    \/ k = "send_message_stream"
    \/ k \in {"send_message", "start_session"} /\ callback # None

(* One function call of the round: its status message, its dispatch and    *)
(* its tool response; after the last call of the round the responses are   *)
(* appended to the contents and resubmitted.                               *)
DispatchCall(fc, ext) ==
    /\ pc = "dispatch"
    /\ IF StatusMessageBuilt(kind, status_callback) /\ StatusMessageRaises(fc)
       THEN /\ TurnRaises("status_message")
            /\ last_call' = fc
            /\ UNCHANGED <<call_idx, function_response_parts, inference_calls,
                           exec_steps, last_result, last_ext, detector_called,
                           system_instruction>>
       ELSE LET r == ExecuteFunction(fc, SessionState, ext) IN
            /\ Len(r.S.lists[r.S.extractor_images]) <= MaxCatalog
            /\ SetSessionState(r.S)
            /\ exec_steps' = IF fc.name = "execute_step" /\ exec_steps < 2
                             THEN exec_steps + 1 ELSE exec_steps
            /\ call_idx' = call_idx + 1
            /\ IF call_idx + 1 = response.ncalls
               THEN /\ pc' = "await"
                    /\ function_response_parts' = <<>>
                    /\ inference_calls' = inference_calls + 1
                    /\ system_instruction' =
                           InstructionsAfterRound(kind, r.S, reading_plan)
               ELSE /\ pc' = "dispatch"
                    /\ function_response_parts' =
                           Append(function_response_parts, fc.name)
                    /\ UNCHANGED <<inference_calls, system_instruction>>
            /\ UNCHANGED <<is_restored, conversation_history, status_callback,
                           outcome, bootVars, obsVars>>
    /\ UNCHANGED <<kind, iteration, response, dispatch_rounds,
                   original_callback, turns>>
    /\ UNCHANGED <<handlers, reading_plan, ioVars, envVars>>

(***************************************************************************)
(* start_session_stream: the plan thread and the join.                     *)
(***************************************************************************)
ReadingPlans ==
    { <<>>, <<[id |-> "quick_scan", title |-> "Quick Scan"],
              [id |-> "methodology", title |-> "Methodology"]>> }

(* _generate_quick_scan_plan: one inference call, its text, and the plan   *)
(* decoded from it (empty when the text does not decode).                  *)
GenerateQuickScanPlan(r, plan) ==
    /\ plan_state = "running"
    /\ IF ExtractTextResponse(r).raised
       THEN /\ plan_state' = "raised"
            /\ UNCHANGED plan_result
       ELSE /\ plan_state' = "done"
            /\ plan_result' = plan
    /\ UNCHANGED <<sessionVars, turnVars, summary_result, obsVars>>
    /\ UNCHANGED <<handlers, reading_plan, ioVars>>
    /\ UNCHANGED system_instruction

GenerateQuickScanPlanRaises ==
    /\ plan_state = "running"
    /\ plan_state' = "raised"
    /\ UNCHANGED <<sessionVars, turnVars, plan_result, summary_result, obsVars>>
    /\ UNCHANGED <<handlers, reading_plan, ioVars>>
    /\ UNCHANGED system_instruction

(* Both futures have completed: the results are combined, or the exception *)
(* of a thread is raised to the caller.                                    *)
(* The list both references are bound to after the join: the list the      *)
(* summary returned, which is the list self.extracted_images refers to,    *)
(* when it is not empty.                                                   *)
CombinedImagesRef_NewList(agent_ref, extractor_ref, ls) == "own"

CombinedImagesRef(agent_ref, extractor_ref, ls) ==
    IF ls[agent_ref] # <<>> THEN agent_ref ELSE extractor_ref

BothCompleted_SummaryOnly == pc = "join"

BothCompleted == pc = "join" /\ plan_state \in {"done", "raised"}

CombineResults ==
    /\ BothCompleted
    /\ IF summary_result.status = "raised" \/ plan_state = "raised"
       THEN /\ outcome' = Raised(IF summary_result.status = "raised"
                                 THEN summary_result.by ELSE "plan")
            /\ pc' = "failed"
            /\ UNCHANGED sessionVars
       ELSE /\ extractor_images' =
                   CombinedImagesRef(agent_images, extractor_images, lists)
            /\ agent_images' = agent_images
            /\ conversation_history' =
                   Append(conversation_history, Msg("assistant", summary_result.value))
            /\ outcome' = Returned(summary_result.value)
            /\ pc' = "idle"
            /\ UNCHANGED <<is_restored, status_callback, current_stage_id,
                           current_section, key_points, db_key_points,
                           has_callback, lists, extraction_count>>
    /\ plan_state' = "idle"
    /\ plan_result' = <<>>
    /\ summary_result' = NoOutcome
    /\ UNCHANGED <<kind, iteration, response, call_idx, function_response_parts,
                   inference_calls, dispatch_rounds, exec_steps,
                   original_callback, turns, obsVars>>
    /\ UNCHANGED <<handlers, reading_plan, ioVars, envVars>>
    /\ UNCHANGED system_instruction

(***************************************************************************)
(* set_current_stage, called between turns.                                *)
(***************************************************************************)
SetCurrentStage(stage_id, section_name) ==
    /\ pc = "idle"
    /\ current_stage_id' = stage_id
    /\ current_section' = IF Truthy(section_name) THEN section_name
                          ELSE current_section
    /\ UNCHANGED <<is_restored, conversation_history, status_callback,
                   key_points, db_key_points, has_callback, lists, agent_images,
                   extractor_images, extraction_count>>
    /\ UNCHANGED <<turnVars, bootVars, obsVars>>
    /\ UNCHANGED <<handlers, reading_plan, ioVars, envVars>>
    /\ UNCHANGED system_instruction

(***************************************************************************)
(* The calls the inference service requests in the session life cycle.     *)
(***************************************************************************)
LoopCalls ==
    { FC("execute_step", [previous_stage |-> "quick_scan", next_stage |-> "quick_scan",
                          mode |-> "qa", reason |-> "r"]),
      FC("execute_step", [previous_stage |-> "quick_scan", next_stage |-> "methodology",
                          mode |-> "transition", reason |-> "r"]),
      FC("extract_images", [images |-> <<Req(1)>>]),
      FC("display_images", [image_indices |-> <<0>>, reasoning |-> "r"]),
      FC("web_search", [query |-> "q", context |-> "c"]),
      FCNoArgs("web_search"),
      FC("no_such_tool", [x |-> "y"]) }

Next ==
    \/ StartSessionRestored
    \/ StartSession
    \/ StartSessionStream
    \/ SendMessage
    \/ SendMessageStream
    \/ InferenceRaises
    \/ \E r \in Responses : ReceiveResponse(r)
    \/ \E fc \in LoopCalls : \E ext \in ExtChoices(fc) : DispatchCall(fc, ext)
    \/ \E r \in Responses, plan \in ReadingPlans :
           GenerateQuickScanPlan(r, plan) /\ UNCHANGED envVars
    \/ GenerateQuickScanPlanRaises /\ UNCHANGED envVars
    \/ CombineResults

Spec == Init /\ [][Next]_vars

(***************************************************************************)
(* The dispatcher on its own.  In this specification the loop's            *)
(* bookkeeping is left out: while a turn is running, _execute_function is  *)
(* called with any function call, and the call and its result are          *)
(* recorded; every call is a round of its own, followed by the next        *)
(* inference request.                                                      *)
(***************************************************************************)
ExecuteFunctionCall(fc, ext) ==
    /\ pc = "await"
    /\ LET r == ExecuteFunction(fc, SessionState, ext) IN
       /\ Len(r.S.lists[r.S.extractor_images]) <= MaxCatalog
       /\ SetSessionState(r.S)
       /\ last_call' = fc
       /\ last_result' = r.result
       /\ system_instruction' = InstructionsAfterRound(kind, r.S, reading_plan)
    /\ UNCHANGED <<is_restored, conversation_history, status_callback, turnVars,
                   bootVars, last_ext, detector_called>>
    /\ UNCHANGED <<handlers, reading_plan, ioVars, envVars>>

InitTools ==
    /\ \E imgs \in RestoredImages, kcb \in BOOLEAN :
           Construct(IF imgs = <<>> THEN <<>>
                     ELSE <<Msg("assistant", "summary"), Msg("user", "question")>>,
                     imgs, None, kcb, <<>>)
    /\ handlers = <<>>
    /\ NoIo

NextTools ==
    \/ StartSessionRestored
    \/ StartSession
    \/ SendMessage
    \/ \E stage_id \in {"methodology", ""}, section_name \in {None, "Intro"} :
           SetCurrentStage(stage_id, section_name)
    \/ \E fc \in ToolCalls : \E ext \in ExtChoices(fc) : ExecuteFunctionCall(fc, ext)

SpecTools == InitTools /\ [][NextTools]_vars

(***************************************************************************)
(* The figure extractor and the catalog on their own: while a turn is      *)
(* running, _execute_function is called with extract_images and            *)
(* display_images calls; next to the call and its result, the answers the  *)
(* renderer, the detector and the file system gave are recorded.           *)
(***************************************************************************)
ExtractorCalls ==
    { fc \in OtherCalls : fc.name \in {"extract_images", "display_images"} }

ExtractorCall(fc, ext) ==
    /\ pc = "await"
    /\ LET r == ExecuteFunction(fc, SessionState, ext) IN
       /\ Len(r.S.lists[r.S.extractor_images]) <= MaxCatalog
       /\ SetSessionState(r.S)
       /\ last_call' = fc
       /\ last_result' = r.result
       /\ system_instruction' = InstructionsAfterRound(kind, r.S, reading_plan)
       /\ last_ext' = IF fc.name = "extract_images" THEN ext ELSE NoExt
       /\ detector_called' =
              /\ fc.name = "extract_images"
              /\ ExtractImagesBatch(Get(EffectiveArgs(fc), "images", <<>>),
                                    extraction_count, Catalog, ext).detector_calls > 0
    /\ UNCHANGED <<is_restored, conversation_history, status_callback, turnVars,
                   bootVars>>
    /\ UNCHANGED <<handlers, reading_plan, ioVars>>

NextExtract ==
    \/ StartSessionRestored
    \/ StartSession
    \/ SendMessage
    \/ \E fc \in ExtractorCalls : \E ext \in ExtChoices(fc) :
           ExtractorCall(fc, ext) /\ UNCHANGED envVars

SpecExtract == InitTools /\ [][NextExtract]_vars

(***************************************************************************)
(* The texts of the figure detector and of the plan generator, and their   *)
(* parsing.  A text is a sequence of tokens: "prose" (characters other     *)
(* than braces), "{" and "}", "items" (a member "detections": [...] or     *)
(* "reading_plan": [...] with a list that is not empty), "fence_json" (the  *)
(* opening of a json code fence) and "fence" (three backquotes).  The      *)
(* texts are a core, fenced or not, and with prose around it or not.       *)
(***************************************************************************)
Cores ==
    { <<"{", "items", "}">>, <<"{", "}">>, <<"{", "{", "}", "items", "}">>,
      <<"{", "items">>, <<"}", "{", "items", "}">>, <<"prose">> }

Fenced(core) == { core, <<"fence_json">> \o core \o <<"fence">> }

InProse(text) == { text, <<"prose">> \o text \o <<"prose">> }

Texts == UNION { InProse(text) : text \in UNION { Fenced(core) : core \in Cores } }

(* text.strip() and the two re.sub calls: the opening of a json fence at   *)
(* the start of the text and a fence at its end are removed.               *)
StripCodeFence(text) ==
    LET opened == IF text # <<>> /\ Head(text) = "fence_json" THEN Tail(text) ELSE text
    IN  IF opened # <<>> /\ opened[Len(opened)] = "fence"
        THEN SubSeq(opened, 1, Len(opened) - 1) ELSE opened

(* The loop over the characters of _generate_quick_scan_plan: scan holds   *)
(* brace_count and start_idx (0 when unset) and returns end_idx (0 when    *)
(* the loop ends without a break).                                         *)
RECURSIVE BraceScan(_, _, _, _)
BraceScan(text, i, brace_count, start_idx) ==
    IF i > Len(text) THEN [start_idx |-> start_idx, end_idx |-> 0]
    ELSE IF text[i] = "{"
    THEN BraceScan(text, i + 1, brace_count + 1,
                   IF brace_count = 0 THEN i ELSE start_idx)
    ELSE IF text[i] = "}"
    THEN IF brace_count - 1 = 0 /\ start_idx # 0
         THEN [start_idx |-> start_idx, end_idx |-> i]
         ELSE BraceScan(text, i + 1, brace_count - 1, start_idx)
    ELSE BraceScan(text, i + 1, brace_count, start_idx)

FirstBalancedObject(text) ==
    LET found == BraceScan(text, 1, 0, 0)
    IN  IF found.start_idx # 0 /\ found.end_idx # 0
        THEN SubSeq(text, found.start_idx, found.end_idx) ELSE text

(* json.loads of a text and the value it decodes to: an object is "{",     *)
(* members that are "items" or objects, and "}"; has_items says that the   *)
(* object has the member at its top level.                                 *)
Depth(text, i) ==
    Cardinality({ j \in 1..i : text[j] = "{" }) - Cardinality({ j \in 1..i : text[j] = "}" })

JsonLoads(text) ==
    LET decoded ==
            /\ text # <<>>
            /\ \A i \in 1..Len(text) : text[i] \in {"{", "}", "items"}
            /\ text[1] = "{"
            /\ \A i \in 1..(Len(text) - 1) : Depth(text, i) >= 1
            /\ Depth(text, Len(text)) = 0
    IN  [decoded   |-> decoded,
         has_items |-> decoded /\ \E i \in 1..Len(text) :
                                     text[i] = "items" /\ Depth(text, i) = 1]

(* _detect_figures_batch, from response.text to the detections: []  on a   *)
(* JSONDecodeError.                                                        *)
DecodedDetections == <<[page |-> 1, title |-> "Fig", type |-> "diagram", crop |-> "ok"]>>

DetectorParse(text) ==
    LET result == JsonLoads(StripCodeFence(text))
    IN  [decoded    |-> result.decoded,
         detections |-> IF result.has_items THEN DecodedDetections ELSE <<>>]

(* _generate_quick_scan_plan, from response_text to the reading plan.      *)
DecodedPlan == CHOOSE plan \in ReadingPlans : plan # <<>>

PlanParse_Raises(text) ==
    LET data == JsonLoads(FirstBalancedObject(StripCodeFence(text)))
    IN  IF data.decoded
        THEN [raised |-> FALSE,
              reading_plan |-> IF data.has_items THEN DecodedPlan ELSE <<>>]
        ELSE [raised |-> TRUE, reading_plan |-> <<>>]

PlanParse(text) ==
    LET data == JsonLoads(FirstBalancedObject(StripCodeFence(text)))
    IN  IF data.decoded
        THEN [raised |-> FALSE,
              reading_plan |-> IF data.has_items THEN DecodedPlan ELSE <<>>]
        ELSE [raised |-> FALSE, reading_plan |-> <<>>]

(***************************************************************************)
(* The bootstrap with the texts: the summary thread's extract_images calls *)
(* reach the detector, which answers with a text; the plan thread's        *)
(* inference call answers with a text.                                     *)
(***************************************************************************)
DetectorCalls ==
    { fc \in ExtractorCalls :
          /\ fc.name = "extract_images"
          /\ Get(EffectiveArgs(fc), "images", <<>>) = <<Req(1)>> }

DetectorResponse(fc, text) ==
    LET found == DetectorParse(text)
        ext == [DefaultExt EXCEPT
                    !.detector = IF found.decoded THEN "ok" ELSE "bad_json",
                    !.detections = found.detections]
    IN  /\ ExtractorCall(fc, ext)
        /\ parsed' = [parsed EXCEPT !.detector_text = text]
        /\ UNCHANGED serverVars

PlanTextResponse == [candidates |-> "content", text_parts |-> <<"answer">>, ncalls |-> 0]

PlanResponse(text) ==
    /\ IF PlanParse(text).raised
       THEN GenerateQuickScanPlanRaises
       ELSE GenerateQuickScanPlan(PlanTextResponse, PlanParse(text).reading_plan)
    /\ parsed' = [parsed EXCEPT !.plan_text = text]
    /\ UNCHANGED serverVars

InitParse ==
    /\ Construct(<<>>, <<>>, None, TRUE, <<>>)
    /\ handlers = <<>>
    /\ NoIo

NextParse ==
    \/ StartSessionStream
    \/ \E r \in { x \in Responses : x.ncalls = 0 } : ReceiveResponse(r)
    \/ \E fc \in DetectorCalls, text \in Texts : DetectorResponse(fc, text)
    \/ \E text \in Texts : PlanResponse(text)
    \/ CombineResults

SpecParse == InitParse /\ [][NextParse]_vars

(***************************************************************************)
(* The chat endpoint (app.py).  Every request is handled by a thread of    *)
(* its own; a handler looks its paper up in reading_sessions and runs      *)
(* send_message_stream on the agent registered there.  The session of the  *)
(* variables above is the session "this"; "other" is the session of        *)
(* another paper, of which the part it shares with this one is modelled:   *)
(* the stored user profile, read and written by add_user_key_point.        *)
(***************************************************************************)
Requests == 1..MaxRequests

NewHandler(session) ==
    [session |-> session, pc |-> "new", original_callback |-> None,
     key_points_read |-> <<>>, calls |-> 0]

(* The session is restored from the persisted messages and catalog by the  *)
(* first request that does not find it in reading_sessions.                *)
InitServer ==
    /\ \E imgs \in RestoredImages :
           Construct(<<Msg("assistant", "summary"), Msg("user", "question")>>,
                     imgs, None, TRUE, <<>>)
    /\ \E f \in [Requests -> {"this", "other"}] :
           handlers = [r \in Requests |-> NewHandler(f[r])]
    /\ NoIo

ServerCalls ==
    { FC("execute_step", [previous_stage |-> "quick_scan", next_stage |-> "methodology",
                          mode |-> "transition", reason |-> "r"]),
      FC("extract_images", [images |-> <<Req(1)>>]),
      FC("update_user_profile", [key_point |-> "k1"]) }

(* chat: the agent is taken from reading_sessions, its status callback is  *)
(* set, and send_message_stream saves it and installs its own.             *)
ChatBegin(r) ==
    /\ pc = "idle"
    /\ handlers[r].pc = "new"
    /\ IF handlers[r].session = "this"
       THEN /\ status_callback' = "streaming"
            /\ handlers' = [handlers EXCEPT ![r].pc = "turn",
                                            ![r].original_callback = "caller"]
       ELSE /\ handlers' = [handlers EXCEPT ![r].pc = "turn"]
            /\ UNCHANGED status_callback
    /\ UNCHANGED <<is_restored, conversation_history, current_stage_id,
                   current_section, key_points, db_key_points, has_callback,
                   lists, agent_images, extractor_images, extraction_count>>
    /\ UNCHANGED <<turnVars, bootVars, obsVars, contextVars, ioVars, envVars>>

(* One function call of the loop of send_message_stream.                   *)
ChatToolCall(r, fc, ext) ==
    /\ handlers[r].pc = "turn"
    /\ handlers[r].session = "this"
    /\ handlers[r].calls < MaxCalls
    /\ LET res == ExecuteFunction(fc, SessionState, ext) IN
       /\ Len(res.S.lists[res.S.extractor_images]) <= MaxCatalog
       /\ SetSessionState(res.S)
    /\ handlers' = [handlers EXCEPT ![r].calls = @ + 1]
    /\ UNCHANGED <<is_restored, conversation_history, status_callback,
                   turnVars, bootVars, obsVars, contextVars, ioVars, envVars>>

(* update_user_profile in a turn of the other session: add_user_key_point  *)
(* reads the stored profile, then saves the list it read with the key      *)
(* point appended.                                                         *)
OtherReadProfile(r) ==
    /\ handlers[r].pc = "turn"
    /\ handlers[r].session = "other"
    /\ handlers[r].calls < MaxCalls
    /\ handlers' = [handlers EXCEPT ![r].pc = "adding",
                                    ![r].key_points_read = db_key_points]
    /\ UNCHANGED <<sessionVars, turnVars, bootVars, obsVars, contextVars, ioVars, envVars>>

OtherWriteProfile(r, key_point) ==
    /\ handlers[r].pc = "adding"
    /\ db_key_points' =
           IF AddUserKeyPointAdds(key_point, handlers[r].key_points_read)
           THEN AddUserKeyPoint(key_point, handlers[r].key_points_read)
           ELSE db_key_points
    /\ handlers' = [handlers EXCEPT ![r].pc = "turn", ![r].calls = @ + 1,
                                    ![r].key_points_read = <<>>]
    /\ UNCHANGED <<is_restored, conversation_history, status_callback,
                   current_stage_id, current_section, key_points, has_callback,
                   lists, agent_images, extractor_images, extraction_count>>
    /\ UNCHANGED <<turnVars, bootVars, obsVars, contextVars, ioVars, envVars>>

(* The end of send_message_stream: the appends to the transcript and the   *)
(* saved callback put back.                                                *)
ChatFinish(r) ==
    /\ handlers[r].pc = "turn"
    /\ handlers' = [handlers EXCEPT ![r].pc = "done"]
    /\ IF handlers[r].session = "this"
       THEN /\ conversation_history' =
                   AppendTurn(conversation_history, "send_message_stream", "answer")
            /\ status_callback' = handlers[r].original_callback
       ELSE UNCHANGED <<conversation_history, status_callback>>
    /\ UNCHANGED <<is_restored, current_stage_id, current_section, key_points,
                   db_key_points, has_callback, lists, agent_images,
                   extractor_images, extraction_count>>
    /\ UNCHANGED <<turnVars, bootVars, obsVars, contextVars, ioVars, envVars>>

(* An exception ends the turn: the handler reports it to the client.       *)
ChatRaises(r) ==
    /\ handlers[r].pc = "turn"
    /\ handlers' = [handlers EXCEPT ![r].pc = "done"]
    /\ UNCHANGED <<sessionVars, turnVars, bootVars, obsVars, contextVars, ioVars, envVars>>

NextServer ==
    \/ StartSessionRestored
    \/ \E r \in Requests : ChatBegin(r)
    \/ \E r \in Requests, fc \in ServerCalls :
           \E ext \in ExtChoices(fc) : ChatToolCall(r, fc, ext)
    \/ \E r \in Requests : OtherReadProfile(r)
    \/ \E r \in Requests, key_point \in {"k1", "k2"} : OtherWriteProfile(r, key_point)
    \/ \E r \in Requests : ChatFinish(r)
    \/ \E r \in Requests : ChatRaises(r)

SpecServer == InitServer /\ [][NextServer]_vars

(***************************************************************************)
(* _build_contents: the conversation submitted with the first inference    *)
(* call of a turn.  A text is the record of its identity and its length in *)
(* characters; a text of more than 2000 characters is replaced by its      *)
(* first 1000 characters, the marker "... [truncated]" and its last 1000   *)
(* characters.  Every entry becomes a content of role user or model; the   *)
(* last content holds the document and the current message.                *)
(***************************************************************************)
max_history_messages == 20

MiddleTruncate(content) ==
    IF content.len > 2000
    THEN [text |-> content.text, len |-> 1000 + 15 + 1000, cut |-> TRUE]
    ELSE [text |-> content.text, len |-> content.len, cut |-> FALSE]

HistoryContent(msg) ==
    [role  |-> IF msg.role = "user" THEN "user" ELSE "model",
     parts |-> <<MiddleTruncate(msg.content)>>]

CurrentContent(current_message) ==
    [role  |-> "user",
     parts |-> <<[file_uri |-> "file.uri"], [text |-> current_message]>>]

BuildContents_OldestWindow(history, current_message) ==
    LET history_to_use ==
            IF Len(history) > max_history_messages
            THEN SubSeq(history, 1, max_history_messages)
            ELSE history
    IN  Append([i \in 1..Len(history_to_use) |-> HistoryContent(history_to_use[i])],
               CurrentContent(current_message))

BuildContents(history, current_message) ==
    LET history_to_use ==
            IF Len(history) > max_history_messages
            THEN SubSeq(history, Len(history) - max_history_messages + 1,
                        Len(history))
            ELSE history
    IN  Append([i \in 1..Len(history_to_use) |-> HistoryContent(history_to_use[i])],
               CurrentContent(current_message))

(* The transcripts _build_contents is applied to: n entries of alternating *)
(* roles, texts of 12 and of 2000 characters, and at most one text of 2001 *)
(* characters, at the first or at the last entry.                          *)
Transcript(n, first_role, long) ==
    [i \in 1..n |->
        Msg(IF (i % 2 = 1) = (first_role = "user") THEN "user" ELSE "assistant",
            [text |-> i,
             len  |-> IF i = long THEN 2001 ELSE IF i % 2 = 0 THEN 2000 ELSE 12])]

Transcripts ==
    { Transcript(n, first_role, long) :
          n \in 1..MaxHistory, first_role \in {"user", "assistant"},
          long \in {0, 1, MaxHistory - 1} }

CurrentMessages == {"QUICK_SCAN_INITIAL_PROMPT", "question"}

InitContents ==
    /\ \E history \in Transcripts : Construct(history, <<>>, None, TRUE, <<>>)
    /\ handlers = <<>>
    /\ NoIo

BuildContentsCall(current_message) ==
    /\ contents = NoContents
    /\ contents' = BuildContents(conversation_history, current_message)
    /\ UNCHANGED <<sessionVars, turnVars, bootVars, obsVars, handlers, contextVars,
                   crop, upload, envVars>>

NextContents == \E current_message \in CurrentMessages : BuildContentsCall(current_message)

SpecContents == InitContents /\ [][NextContents]_vars

(***************************************************************************)
(* The chat and the delete endpoint of one paper (app.py), each request in *)
(* a thread of its own, and the rows of the paper in the database.         *)
(* Request r sends the message of text r; the answer to it is the text r   *)
(* of role assistant, and text 0 is the summary of the bootstrap.  The     *)
(* agent the analyze endpoint registered is agent 0, and the agent a chat  *)
(* handler r constructs when it restores the session is agent r.  The      *)
(* papers of the model have a stored file, so that a restore constructs an *)
(* agent.                                                                  *)
(*   handlers[r].pc   new, found, accepted, restoring, session, stream,    *)
(*                    inference, final, save, deleting, done               *)
(*   handlers[r].updates   what send_message_stream has yielded            *)
(***************************************************************************)
Text(x) == [text |-> x, len |-> 12]

Row(is_user, text) == [isUser |-> is_user, text |-> text]

Callback(k, r) == [kind |-> k, of |-> r]

NewAgent(restored_history) ==
    [conversation_history |-> restored_history,
     status_callback |-> Callback("None", 0)]

NewChatHandler(op) ==
    [op |-> op, pc |-> "new", agent |-> 0,
     original_callback |-> Callback("None", 0), contents |-> <<>>,
     updates |-> <<>>, rounds |-> 0]

(* The paper has been analyzed: its summary is stored, and its session is  *)
(* registered, or the server has been restarted since.                     *)
InitChat ==
    /\ Construct(<<>>, <<>>, None, TRUE, <<>>)
    /\ \E f \in [Requests -> {"chat", "delete"}] :
           handlers = [r \in Requests |-> NewChatHandler(f[r])]
    /\ contents = NoContents
    /\ crop = NoCrop
    /\ upload = NoUpload
    /\ parsed = NoParsed
    /\ reading_sessions \in {{}, {0}}
    /\ agents = [a \in 0..MaxRequests |->
                    NewAgent(IF a = 0 THEN <<Msg("assistant", Text(0))>> ELSE <<>>)]
    /\ db = [papers |-> TRUE, messages |-> <<Row(FALSE, Text(0))>>,
             reading_sessions |-> TRUE]

ChatStep(r, from) ==
    /\ handlers[r].pc = from
    /\ UNCHANGED <<sessionVars, turnVars, bootVars, obsVars, contextVars, ioVars,
                   parsed>>

(* chat: get_paper_by_id, and 404 when the paper has no row.               *)
ChatGetPaper(r) ==
    /\ handlers[r].op = "chat"
    /\ ChatStep(r, "new")
    /\ handlers' = [handlers EXCEPT ![r].pc = IF db.papers THEN "found" ELSE "done"]
    /\ UNCHANGED serverVars

(* chat: the user's message is saved before the response is generated.     *)
ChatSaveUserMessage(r) ==
    /\ ChatStep(r, "found")
    /\ db' = [db EXCEPT !.messages = Append(@, Row(TRUE, Text(r)))]
    /\ handlers' = [handlers EXCEPT ![r].pc = "accepted"]
    /\ UNCHANGED <<reading_sessions, agents>>

(* generate: if paper_id not in reading_sessions.                          *)
ChatCheckSession(r) ==
    /\ ChatStep(r, "accepted")
    /\ handlers' = [handlers EXCEPT
                        ![r].pc = IF reading_sessions = {} THEN "restoring"
                                  ELSE "session"]
    /\ UNCHANGED serverVars

(* generate: the transcript is rebuilt from the stored messages, the agent *)
(* is constructed and start_session returns the last answer of a restored  *)
(* transcript, or runs the bootstrap when there is none; the agent is      *)
(* registered.                                                             *)
ChatRestoreSession(r) ==
    /\ ChatStep(r, "restoring")
    /\ LET messages == db.messages
           restored_history ==
               [i \in 1..Len(messages) |->
                   Msg(IF messages[i].isUser THEN "user" ELSE "assistant",
                       messages[i].text)]
       IN  agents' = [agents EXCEPT ![r] =
                         NewAgent(IF restored_history # <<>> THEN restored_history
                                  ELSE <<Msg("assistant", Text(0))>>)]
    /\ reading_sessions' = {r}
    /\ handlers' = [handlers EXCEPT ![r].pc = "session"]
    /\ UNCHANGED db

(* generate: session = reading_sessions[paper_id], a KeyError when the     *)
(* entry has been deleted; the handler's callback is set on the agent.     *)
ChatGetSession(r) ==
    /\ ChatStep(r, "session")
    /\ IF reading_sessions = {}
       THEN /\ handlers' = [handlers EXCEPT ![r].pc = "done"]
            /\ UNCHANGED agents
       ELSE \E a \in reading_sessions :
               /\ handlers' = [handlers EXCEPT ![r].pc = "stream", ![r].agent = a]
               /\ agents' = [agents EXCEPT ![a].status_callback = Callback("caller", r)]
    /\ UNCHANGED <<reading_sessions, db>>

(* send_message_stream up to its first yield: the callback is saved and    *)
(* replaced, and the contents of the first inference call are built.       *)
SendMessageStreamBegin(r) ==
    /\ ChatStep(r, "stream")
    /\ LET a == handlers[r].agent IN
       /\ handlers' = [handlers EXCEPT
               ![r].pc = "inference",
               ![r].original_callback = agents[a].status_callback,
               ![r].contents = BuildContents(agents[a].conversation_history, r),
               ![r].updates = Append(@, "Thinking")]
       /\ agents' = [agents EXCEPT ![a].status_callback = Callback("streaming", r)]
    /\ UNCHANGED <<reading_sessions, db>>

(* The response holds a function call: its status is yielded, the call is  *)
(* dispatched, and Thinking is yielded before the next inference call.     *)
SendMessageStreamRound(r) ==
    /\ ChatStep(r, "inference")
    /\ handlers[r].rounds < MaxCalls
    /\ handlers' = [handlers EXCEPT ![r].rounds = @ + 1,
                                    ![r].updates = @ \o <<"Executing", "Thinking">>]
    /\ UNCHANGED serverVars

(* The response holds no function call: the loop is left.                  *)
SendMessageStreamAnswer(r) ==
    /\ ChatStep(r, "inference")
    /\ handlers' = [handlers EXCEPT
                        ![r].pc = "final",
                        ![r].updates = Append(@, "Generating final response")]
    /\ UNCHANGED serverVars

SendMessageStreamFinish_KeepsCallback(r) ==
    /\ ChatStep(r, "final")
    /\ LET a == handlers[r].agent IN
       agents' = [agents EXCEPT
           ![a].conversation_history =
               @ \o <<Msg("user", Text(r)), Msg("assistant", Text(r))>>]
    /\ handlers' = [handlers EXCEPT ![r].pc = "save",
                                    ![r].updates = Append(@, "response")]
    /\ UNCHANGED <<reading_sessions, db>>

(* The appends to the transcript, the saved callback put back, and the     *)
(* final yield.                                                            *)
SendMessageStreamFinish(r) ==
    /\ ChatStep(r, "final")
    /\ LET a == handlers[r].agent IN
       agents' = [agents EXCEPT
           ![a].conversation_history =
               @ \o <<Msg("user", Text(r)), Msg("assistant", Text(r))>>,
           ![a].status_callback = handlers[r].original_callback]
    /\ handlers' = [handlers EXCEPT ![r].pc = "save",
                                    ![r].updates = Append(@, "response")]
    /\ UNCHANGED <<reading_sessions, db>>

(* An inference call raises: generate reports the error to the client.     *)
SendMessageStreamRaises(r) ==
    /\ ChatStep(r, "inference")
    /\ handlers' = [handlers EXCEPT ![r].pc = "done"]
    /\ UNCHANGED serverVars

(* generate, on the final update: save_message of the answer and           *)
(* save_reading_session, then the event is sent.                           *)
ChatSaveAnswer(r) ==
    /\ ChatStep(r, "save")
    /\ db' = [db EXCEPT !.messages = Append(@, Row(FALSE, Text(r))),
                        !.reading_sessions = TRUE]
    /\ handlers' = [handlers EXCEPT ![r].pc = "done"]
    /\ UNCHANGED <<reading_sessions, agents>>

(* delete_paper_endpoint: del reading_sessions[paper_id].                  *)
DeleteSession(r) ==
    /\ handlers[r].op = "delete"
    /\ ChatStep(r, "new")
    /\ reading_sessions' = {}
    /\ handlers' = [handlers EXCEPT ![r].pc = "deleting"]
    /\ UNCHANGED <<agents, db>>

(* delete_paper_endpoint: the folder is removed and delete_paper deletes   *)
(* the rows of the paper in reading_sessions, messages and papers.         *)
DeletePaper(r) ==
    /\ ChatStep(r, "deleting")
    /\ db' = [papers |-> FALSE, messages |-> <<>>, reading_sessions |-> FALSE]
    /\ handlers' = [handlers EXCEPT ![r].pc = "done"]
    /\ UNCHANGED <<reading_sessions, agents>>

NextChat ==
    \/ \E r \in Requests : ChatGetPaper(r)
    \/ \E r \in Requests : ChatSaveUserMessage(r)
    \/ \E r \in Requests : ChatCheckSession(r)
    \/ \E r \in Requests : ChatRestoreSession(r)
    \/ \E r \in Requests : ChatGetSession(r)
    \/ \E r \in Requests : SendMessageStreamBegin(r)
    \/ \E r \in Requests : SendMessageStreamRound(r)
    \/ \E r \in Requests : SendMessageStreamAnswer(r)
    \/ \E r \in Requests : SendMessageStreamFinish(r)
    \/ \E r \in Requests : SendMessageStreamRaises(r)
    \/ \E r \in Requests : ChatSaveAnswer(r)
    \/ \E r \in Requests : DeleteSession(r)
    \/ \E r \in Requests : DeletePaper(r)

SpecChat == InitChat /\ [][NextChat]_vars

(***************************************************************************)
(* GeminiProvider.upload_file, called by the analyze endpoint before the   *)
(* agent is constructed.  The upload runs in the worker of an executor of  *)
(* one thread; the caller waits for its future with a timeout, inside the  *)
(* with block of the executor.  Leaving the with block, normally or with   *)
(* an exception, calls the executor's shutdown(wait=True), which returns   *)
(* when the worker has finished.                                           *)
(*   upload.pc      none, result (in future.result), exit_timeout (the     *)
(*                  TimeoutError is leaving the with block), returned,     *)
(*                  raised_timeout, raised_error                           *)
(*   upload.worker  running, done, failed                                  *)
(***************************************************************************)
InitUpload ==
    /\ Construct(<<>>, <<>>, None, TRUE, <<>>)
    /\ handlers = <<>>
    /\ contents = NoContents
    /\ parsed = NoParsed
    /\ NoServer
    /\ crop = NoCrop
    /\ upload = [pc |-> "none", worker |-> "none", elapsed |-> 0, timeout_seconds |-> 0]

UploadStep(u) ==
    /\ upload' = u
    /\ UNCHANGED <<sessionVars, turnVars, bootVars, obsVars, handlers, contextVars,
                   contents, crop, envVars>>

UploadFile(timeout_seconds) ==
    /\ upload.pc = "none"
    /\ UploadStep([pc |-> "result", worker |-> "running", elapsed |-> 0,
                   timeout_seconds |-> timeout_seconds])

Tick ==
    /\ upload.pc \in {"result", "exit_timeout"}
    /\ upload.elapsed < MaxElapsed
    /\ UploadStep([upload EXCEPT !.elapsed = @ + 1])

(* client.files.upload returns, or raises, in the worker.                  *)
WorkerCompletes ==
    /\ upload.worker = "running"
    /\ UploadStep([upload EXCEPT !.worker = "done"])

WorkerFails ==
    /\ upload.worker = "running"
    /\ UploadStep([upload EXCEPT !.worker = "failed"])

(* future.result(timeout=timeout_seconds).                                 *)
ResultReturns ==
    /\ upload.pc = "result"
    /\ upload.worker = "done"
    /\ UploadStep([upload EXCEPT !.pc = "returned"])

ResultRaises ==
    /\ upload.pc = "result"
    /\ upload.worker = "failed"
    /\ UploadStep([upload EXCEPT !.pc = "raised_error"])

ResultTimesOut ==
    /\ upload.pc = "result"
    /\ upload.worker = "running"
    /\ upload.elapsed >= upload.timeout_seconds
    /\ UploadStep([upload EXCEPT !.pc = "exit_timeout"])

(* The with block is left with the TimeoutError: shutdown(wait=True).      *)
ExecutorExit ==
    /\ upload.pc = "exit_timeout"
    /\ upload.worker # "running"
    /\ UploadStep([upload EXCEPT !.pc = "raised_timeout"])

NextUpload ==
    \/ \E timeout_seconds \in 1..MaxTimeout : UploadFile(timeout_seconds)
    \/ Tick
    \/ WorkerCompletes
    \/ WorkerFails
    \/ ResultReturns
    \/ ResultRaises
    \/ ResultTimesOut
    \/ ExecutorExit

SpecUpload == InitUpload /\ [][NextUpload]_vars

(***************************************************************************)
(* Progress of a turn.  The steps the session takes by itself are taken    *)
(* eventually: the dispatch of a call that makes no external call, and the *)
(* combination of the results after the join.  Nothing obliges the         *)
(* inference service, the detector or the search to answer: the requests   *)
(* to them are made without a timeout, and the code has no step that ends  *)
(* a wait.                                                                 *)
(***************************************************************************)
LocalCalls == { fc \in LoopCalls : fc.name \in {"execute_step", "display_images",
                                                "no_such_tool"} }

LocalDispatch == \E fc \in LocalCalls : DispatchCall(fc, DefaultExt)

SpecLive == Spec /\ WF_vars(LocalDispatch) /\ WF_vars(CombineResults)

(***************************************************************************)
(* The profile on its own: while a turn is running, _execute_function is   *)
(* called with update_user_profile calls; the session is constructed with  *)
(* or without the callback of the profile store and with the profile the   *)
(* store holds, and the answer of the store is recorded with the call.     *)
(***************************************************************************)
ProfileCalls == { fc \in OtherCalls : fc.name = "update_user_profile" }

StoredProfiles == { <<>>, <<"k1">>, <<"k3">>, <<"k3", "k1">> }

InitProfile ==
    /\ \E profile \in StoredProfiles, kcb \in BOOLEAN :
           Construct(<<>>, <<>>, None, kcb, profile)
    /\ handlers = <<>>
    /\ NoIo

ProfileCall(fc, ext) ==
    /\ pc = "await"
    /\ LET r == ExecuteFunction(fc, SessionState, ext) IN
       /\ SetSessionState(r.S)
       /\ last_call' = fc
       /\ last_result' = r.result
       /\ last_ext' = ext
       /\ system_instruction' = InstructionsAfterRound(kind, r.S, reading_plan)
    /\ UNCHANGED <<is_restored, conversation_history, status_callback, turnVars,
                   bootVars, detector_called, handlers, reading_plan, ioVars,
                   envVars>>

NextProfile ==
    \/ StartSession
    \/ \E fc \in ProfileCalls : \E ext \in ExtChoices(fc) : ProfileCall(fc, ext)

SpecProfile == InitProfile /\ [][NextProfile]_vars

(***************************************************************************)
(* The crop of one detection: extract_images for a figure of page 1, the   *)
(* detector answering with one detection whose bounding box and page image *)
(* size are drawn at the start; the crop outcome of the detection follows  *)
(* from the crop region, and from the file system when the region is       *)
(* valid.                                                                  *)
(***************************************************************************)
CoordValues ==
    { 0 - 20 * Unit, 0, Unit \div 2, Unit, 100 * Unit, 400 * Unit, 1000 * Unit,
      1200 * Unit }

BBoxes == { <<a, b, c, d>> : a \in CoordValues, b \in CoordValues,
                             c \in CoordValues, d \in CoordValues }

ImageSizes == { [width |-> 800, height |-> 1000], [width |-> 300, height |-> 200] }

SaveOutcomes == {"ok", "save_failed", "zero_byte"}

InitCrop ==
    /\ Construct(<<>>, <<>>, None, TRUE, <<>>)
    /\ handlers = <<>>
    /\ contents = NoContents
    /\ parsed = NoParsed
    /\ NoServer
    /\ upload = NoUpload
    /\ \E bbox \in BBoxes, size \in ImageSizes :
           crop = [applied |-> FALSE, bbox |-> bbox, size |-> size,
                   pixels |-> <<>>, rect |-> <<>>, valid |-> FALSE]

CropDetection(save) ==
    /\ pc = "await"
    /\ ~crop.applied
    /\ LET region == CropRegion(crop.bbox, crop.size.width, crop.size.height)
           det == [page |-> 1, title |-> "Fig", type |-> "diagram",
                   crop |-> IF region.valid THEN save ELSE "invalid_region"]
           ext == [NoExt EXCEPT !.detections = <<det>>]
           fc == FC("extract_images", [images |-> <<Req(1)>>])
           r == ExecuteFunction(fc, SessionState, ext)
       IN  /\ SetSessionState(r.S)
           /\ last_call' = fc
           /\ last_result' = r.result
           /\ last_ext' = ext
           /\ detector_called' = TRUE
           /\ system_instruction' = InstructionsAfterRound(kind, r.S, reading_plan)
           /\ crop' = [crop EXCEPT !.applied = TRUE, !.pixels = region.pixels,
                                   !.rect = region.rect, !.valid = region.valid]
    /\ UNCHANGED <<is_restored, conversation_history, status_callback, turnVars,
                   bootVars, handlers, reading_plan, contents, upload,
                   envVars>>

NextCrop ==
    \/ StartSession
    \/ \E save \in SaveOutcomes : CropDetection(save)

SpecCrop == InitCrop /\ [][NextCrop]_vars

(***************************************************************************)
(* A restart of the process.  reading_sessions is empty again, and the     *)
(* next chat request for the paper constructs the session from the         *)
(* persisted messages and the persisted catalog and calls start_session    *)
(* (app.py, chat).  The restart is taken between turns, after a turn that  *)
(* completed: the messages and the catalog persisted are then those of the *)
(* session.                                                                *)
(***************************************************************************)
RestoreSession ==
    /\ pc = "idle"
    /\ outcome.status = "returned"
    /\ conversation_history # <<>>
    /\ is_restored' = TRUE
    /\ conversation_history' = conversation_history
    /\ status_callback' = None
    /\ current_stage_id' = StartStage(TRUE)
    /\ current_section' = None
    /\ key_points' = db_key_points
    /\ has_callback' = TRUE
    /\ lists' = [own |-> <<>>, restored |-> AgentCatalog]
    /\ extractor_images' = IF AgentCatalog # <<>> THEN "restored" ELSE "own"
    /\ agent_images' = IF AgentCatalog # <<>> THEN "restored" ELSE "own"
    /\ extraction_count' = 0
    /\ reading_plan' = <<>>
    /\ system_instruction' = NoInstructions
    /\ pc' = "idle"
    /\ kind' = "none"
    /\ iteration' = 0
    /\ response' = NoResponse
    /\ call_idx' = 0
    /\ function_response_parts' = <<>>
    /\ inference_calls' = 0
    /\ dispatch_rounds' = 0
    /\ exec_steps' = 0
    /\ original_callback' = None
    /\ outcome' = Returned(LastAssistant(conversation_history))
    /\ UNCHANGED <<db_key_points, turns, bootVars, obsVars, handlers, ioVars,
                   envVars>>

NextRestart ==
    \/ Next
    \/ RestoreSession

SpecRestart == Init /\ [][NextRestart]_vars

(***************************************************************************)
(* Properties.                                                             *)
(***************************************************************************)
IsPrefix(a, b) == Len(a) <= Len(b) /\ SubSeq(b, 1, Len(a)) = a

UserTurn == kind \in {"send_message", "send_message_stream"}

(* The loop bound on its own: at most max_iterations rounds of dispatch    *)
(* and max_iterations + 1 inference calls in a turn (summary_max_iterations *)
(* in the bootstrap summary).                                              *)
LoopBound ==
    /\ dispatch_rounds <= MaxIterations(kind)
    /\ inference_calls <= MaxIterations(kind) + 1
    /\ iteration <= MaxIterations(kind)

LoopBoundReached ==
    /\ UserTurn
    /\ dispatch_rounds = max_iterations
    /\ inference_calls = max_iterations + 1
    /\ outcome.status = "returned"

(* C1: whatever the inference service answers, a turn performs at most 10  *)
(* rounds of tool dispatch and 11 inference calls (5 rounds in the         *)
(* bootstrap summary), then returns a string, the model's text or the      *)
(* fallback text, and does not raise: only a failure of the inference call *)
(* itself ends a turn with an exception.                                   *)
C1_TurnBoundedAndNeverRaises ==
    /\ LoopBound
    /\ UserTurn /\ outcome.status = "raised" => outcome.by = "inference"
    /\ UserTurn /\ outcome.status = "returned"
           => outcome.value \in {"answer", FallbackText}

(* The function call of a step of the dispatcher.                          *)
ExecuteStepDispatched ==
    /\ pc = "await"
    /\ pc' = "await"
    /\ last_call'.name = "execute_step"

CallMode(fc) == Get(EffectiveArgs(fc), "mode", "transition")

HasStages(fc) ==
    /\ "previous_stage" \in DOMAIN EffectiveArgs(fc)
    /\ "next_stage" \in DOMAIN EffectiveArgs(fc)

(* C2: an execute_step call with mode=qa and previous_stage = next_stage   *)
(* never changes current_stage, whatever the current stage is when the     *)
(* call is dispatched.                                                     *)
C2_QaNeverChangesStage ==
    [][(/\ ExecuteStepDispatched
        /\ CallMode(last_call') = "qa"
        /\ HasStages(last_call')
        /\ last_call'.args.previous_stage = last_call'.args.next_stage)
       => current_stage_id' = current_stage_id]_vars

TransitionDispatched ==
    /\ ExecuteStepDispatched
    /\ CallMode(last_call') = "transition"
    /\ HasStages(last_call')
    /\ last_call'.args.previous_stage # last_call'.args.next_stage

(* C3 as stated: an execute_step call with mode=transition and             *)
(* previous_stage # next_stage sets current_stage to next_stage and, when  *)
(* a section_name is supplied, sets the focus to it, for every next_stage. *)
C3_TransitionSetsStageAndFocus ==
    [][TransitionDispatched
       => /\ current_stage_id' = last_call'.args.next_stage
          /\ "section_name" \in DOMAIN last_call'.args
                 => current_section' = last_call'.args.section_name]_vars

(* C3 as amended: an execute_step call with mode=transition and            *)
(* previous_stage # next_stage sets current_stage to next_stage; it sets   *)
(* the focus to the supplied section_name when next_stage is               *)
(* section_deep_dive and the value is not empty, and otherwise leaves the  *)
(* focus unchanged.                                                        *)
C3_TransitionSetsStageAndDeepDiveFocus ==
    [][TransitionDispatched
       => /\ current_stage_id' = last_call'.args.next_stage
          /\ IF /\ last_call'.args.next_stage = "section_deep_dive"
                /\ Truthy(Get(last_call'.args, "section_name", None))
             THEN current_section' = last_call'.args.section_name
             ELSE current_section' = current_section]_vars

C3_Witness ==
    /\ last_call.name = "execute_step"
    /\ CallMode(last_call) = "transition"
    /\ HasStages(last_call)
    /\ last_call.args.previous_stage = "quick_scan"
    /\ last_call.args.next_stage = "section_deep_dive"
    /\ Get(last_call.args, "section_name", None) = "Intro"
    /\ current_stage_id = "section_deep_dive"
    /\ current_section = "Intro"

(* C4: in every reachable state current_stage is unset or a non-empty      *)
(* identifier, never the empty string.                                     *)
C4_StageNeverEmpty == current_stage_id # ""

(* C5: current_stage is unset from construction until the first turn, and  *)
(* the first turn sets it to quick_scan before any inference output is     *)
(* read, for a fresh and for a restored session; nothing else takes it out *)
(* of the unset state.                                                     *)
C5_FirstTurnInitializesStage ==
    /\ [](pc = "constructed" => current_stage_id = None)
    /\ [][/\ pc = "constructed" /\ pc' # "constructed"
                 => current_stage_id' = "quick_scan"
          /\ current_stage_id = None /\ current_stage_id' # None
                 => pc = "constructed" /\ current_stage_id' = "quick_scan"]_vars

C5_Witness ==
    /\ pc = "idle"
    /\ is_restored
    /\ turns = 0
    /\ current_stage_id = "quick_scan"
    /\ outcome = Returned("summary")

(* C6: every user turn that returns an answer has executed exactly one     *)
(* execute_step call during that turn.                                     *)
C6_ExactlyOneExecuteStepPerTurn ==
    (UserTurn /\ pc = "idle" /\ outcome.status = "returned") => exec_steps = 1

(* C7: in the tool-call loop a failing tool call never aborts the turn:    *)
(* every call of the round yields one tool response, and the loop goes on  *)
(* to the next call or resubmits to inference.                             *)
C7_FailingCallNeverAbortsTurn ==
    [][UserTurn /\ pc = "dispatch" /\ turnVars' # turnVars
       => /\ pc' \in {"dispatch", "await"}
          /\ call_idx' = call_idx + 1
          /\ outcome'.status # "raised"]_vars

Failed(result) == ~result.success

LastArgs == EffectiveArgs(last_call)

OutOfRange(idx) == idx < 0 \/ idx >= Len(AgentCatalog)

NoValidPage(images) == \A p \in PageRequests(images) : p < 1 \/ p > NumPages

(* The malformed calls: an empty image list or no valid page number, an    *)
(* explain_images index outside the catalog, a display_images index that   *)
(* is not an integer, an empty query, insight or markup.                   *)
RejectedExtract ==
    /\ last_call.name = "extract_images"
    /\ NoValidPage(Get(LastArgs, "images", <<>>))

RejectedCall ==
    \/ /\ last_call.name = "explain_images"
       /\ OutOfRange(Get(LastArgs, "image_index", 0))
    \/ /\ last_call.name = "display_images"
       /\ InSeq(NotAnInt, Get(LastArgs, "image_indices", <<>>))
    \/ /\ last_call.name = "web_search"
       /\ ~Truthy(Get(LastArgs, "query", ""))
    \/ /\ last_call.name = "update_user_profile"
       /\ ~Truthy(Get(LastArgs, "key_point", ""))
    \/ /\ last_call.name = "generate_animation"
       /\ ~Truthy(Get(LastArgs, "animation_html", ""))

(* The calls that are accepted in spite of their arguments: display_images *)
(* with integer indices outside the catalog, execute_step without its      *)
(* stage fields.                                                           *)
SkippedIndices ==
    /\ last_call.name = "display_images"
    /\ ~InSeq(NotAnInt, Get(LastArgs, "image_indices", <<>>))
    /\ \E i \in 1..Len(Get(LastArgs, "image_indices", <<>>)) :
           OutOfRange(LastArgs.image_indices[i])

MissingStageFields ==
    /\ last_call.name = "execute_step"
    /\ ~({"previous_stage", "next_stage", "mode"} \subseteq DOMAIN LastArgs)

C10_CatalogAppendOnly ==
    [][/\ IsPrefix(Catalog, Catalog')
       /\ IsPrefix(AgentCatalog, AgentCatalog')]_vars

C10_Witness ==
    /\ pc = "idle"
    /\ turns = 1
    /\ is_restored
    /\ Len(Catalog) = 2
    /\ Catalog[1] = RestoredRecord
    /\ Catalog[2].path.fig = 1

(***************************************************************************)
(* The extraction pipeline.                                                *)
(***************************************************************************)
Paths(records) == { records[i].path : i \in 1..Len(records) }

SameFigure(a, b) == a.page = b.page /\ a.title = b.title /\ a.type = b.type

SuccessfulExtract == last_call.name = "extract_images" /\ last_result.success

(* C11: after a successful extract, the same request made once more in the *)
(* same session, with the detector and the file system answering as they   *)
(* did before, succeeds again: it appends as many records as the first     *)
(* call, for the same figures, behind the records of the first call, under *)
(* file names that differ from each other and from those of the first      *)
(* call, and advances the counter by that many; nothing is deduplicated.   *)
C11_RepeatedExtractAppendsAgain ==
    SuccessfulExtract
        => LET first == last_result.extracted_images
               again == ExtractImagesBatch(Get(LastArgs, "images", <<>>),
                                           extraction_count, Catalog, last_ext)
               second == again.result.extracted_images
           IN  /\ again.result.success
               /\ Len(second) = Len(first)
               /\ \A i \in 1..Len(first) : SameFigure(first[i], second[i])
               /\ again.catalog = Catalog \o second
               /\ SubSeq(Catalog, Len(Catalog) - Len(first) + 1, Len(Catalog)) = first
               /\ Paths(first) \cap Paths(second) = {}
               /\ Cardinality(Paths(second)) = Len(second)
               /\ again.count = extraction_count + Len(second)

C11_Witness ==
    /\ ~is_restored
    /\ SuccessfulExtract
    /\ Len(Catalog) = 2
    /\ SameFigure(Catalog[1], Catalog[2])
    /\ Catalog[1].path # Catalog[2].path
    /\ last_result.extracted_images = <<Catalog[2]>>
    /\ extraction_count = 2

(* C12: over the whole life of a session, a session reconstructed from a   *)
(* persisted catalog included, no two catalog records share a storage      *)
(* path: no extraction writes to the file of an existing record.           *)
C12_StoragePathsNeverReused ==
    \A i, j \in 1..Len(Catalog) : i # j => Catalog[i].path # Catalog[j].path

(***************************************************************************)
(* display_images.                                                         *)
(***************************************************************************)
InRange(idx, catalog) == 0 <= idx /\ idx < Len(catalog)

RECURSIVE ReferencesFor(_, _)
ReferencesFor(indices, catalog) ==
    IF indices = <<>> THEN <<>>
    ELSE (IF InRange(Head(indices), catalog)
          THEN <<Markdown(catalog[Head(indices) + 1])>> ELSE <<>>)
         \o ReferencesFor(Tail(indices), catalog)

DisplayDispatched ==
    /\ pc = "await"
    /\ pc' = "await"
    /\ last_call'.name = "display_images"
    /\ ~InSeq(NotAnInt, Get(EffectiveArgs(last_call'), "image_indices", <<>>))

(* C13: display_images with any list of integer indices returns success;   *)
(* its references are, in the order the indices are listed, one reference  *)
(* for each listed index i with 0 <= i < catalog size and none for any     *)
(* other index; the call leaves the catalog and the counter as they were.  *)
C13_DisplaySkipsInvalidIndices ==
    [][DisplayDispatched
       => /\ last_result'.success
          /\ last_result'.markdown_images =
                 ReferencesFor(Get(EffectiveArgs(last_call'), "image_indices", <<>>),
                               AgentCatalog)
          /\ last_result'.count = Len(last_result'.markdown_images)
          /\ UNCHANGED <<lists, agent_images, extractor_images,
                         extraction_count>>]_vars

C13_Witness ==
    /\ last_call.name = "display_images"
    /\ Get(LastArgs, "image_indices", <<>>) = <<1, 0>>
    /\ Len(AgentCatalog) = 2
    /\ last_result.success
    /\ last_result.count = 2
    /\ last_result.markdown_images =
           <<Markdown(AgentCatalog[2]), Markdown(AgentCatalog[1])>>
    /\ Markdown(AgentCatalog[1]) # Markdown(AgentCatalog[2])

(***************************************************************************)
(* Failures of extract_images.                                             *)
(***************************************************************************)
ExtractDispatched ==
    /\ pc = "await"
    /\ pc' = "await"
    /\ last_call'.name = "extract_images"

(* The pages of a request that are in range and render, the detections on  *)
(* those pages, and the detections among them that are cropped and saved.  *)
Rendered(images, ext) ==
    { p \in PageRequests(images) : 1 <= p /\ p <= NumPages /\ p \notin ext.render_fails }

Surviving(images, ext) ==
    { i \in 1..Len(ext.detections) :
          ext.detector = "ok" /\ ext.detections[i].page \in Rendered(images, ext) }

Saved(images, ext) ==
    { i \in Surviving(images, ext) : ext.detections[i].crop = "ok" }

SkipsAPage(images) == \E p \in PageRequests(images) : p < 1 \/ p > NumPages

(* C14: extract_images answers with a structured failure, the catalog and  *)
(* the counter unchanged, when the request list is empty, when none of the *)
(* requested pages renders (the detector is then not called), and when     *)
(* there are detections but none of them is cropped and saved; a page out  *)
(* of range next to a page that renders is skipped and the call goes on    *)
(* with the other page.                                                    *)
C14_ExtractFailuresLeaveCatalog ==
    [][ExtractDispatched
       => LET images == Get(EffectiveArgs(last_call'), "images", <<>>)
              ext == last_ext'
          IN  /\ Failed(last_result')
                     => /\ UNCHANGED <<lists, agent_images, extractor_images,
                                       extraction_count>>
                        /\ last_result'.extracted_images = <<>>
              /\ images = <<>>
                     => /\ Failed(last_result')
                        /\ last_result'.message = "No images requested for extraction"
                        /\ ~detector_called'
              /\ (images # <<>> /\ ~ext.open_raises /\ Rendered(images, ext) = {})
                     => /\ Failed(last_result')
                        /\ last_result'.message = "No valid pages to render"
                        /\ ~detector_called'
              /\ (/\ images # <<>> /\ ~ext.open_raises
                  /\ Surviving(images, ext) # {} /\ Saved(images, ext) = {})
                     => /\ Failed(last_result')
                        /\ last_result'.message = "Failed to crop any figures"
                        /\ detector_called'
              /\ (/\ SkipsAPage(images) /\ ~ext.open_raises
                  /\ Saved(images, ext) # {})
                     => /\ last_result'.success
                        /\ Len(last_result'.extracted_images)
                               = Cardinality(Saved(images, ext))]_vars

C14_Witness ==
    /\ last_call.name = "extract_images"
    /\ Get(LastArgs, "images", <<>>) = <<Req(1)>>
    /\ last_ext.render_fails = {1}
    /\ ~last_ext.open_raises
    /\ Failed(last_result)
    /\ last_result.message = "No valid pages to render"
    /\ ~detector_called
    /\ is_restored
    /\ Catalog = <<RestoredRecord>>
    /\ extraction_count = 0

(* C15: a successful extract_images returns the records that this call     *)
(* appended, and only those, in the order they were appended: the catalog  *)
(* after the call is the catalog before it followed by the returned        *)
(* records; the result carries one reference per returned record, built    *)
(* from its title and its relative path.                                   *)
C15_ExtractReturnsAppendedRecords ==
    [][(ExtractDispatched /\ last_result'.success)
       => LET new == last_result'.extracted_images
              refs == last_result'.markdown_images
          IN  /\ Len(new) >= 1
              /\ Catalog' = Catalog \o new
              /\ extraction_count' = extraction_count + Len(new)
              /\ Len(refs) = Len(new)
              /\ \A i \in 1..Len(new) :
                     refs[i] = [title |-> new[i].title, path |-> new[i].path_relative]]_vars

C15_Witness ==
    /\ is_restored
    /\ SuccessfulExtract
    /\ Len(Catalog) = 2
    /\ Catalog[1] = RestoredRecord
    /\ last_result.extracted_images = <<Catalog[2]>>
    /\ Len(last_result.markdown_images) = 1

(***************************************************************************)
(* The bootstrap: start_session_stream.                                    *)
(***************************************************************************)
Bootstrapping ==
    kind = "start_session_stream" /\ pc \in {"await", "dispatch", "join"}

(* C17: in start_session_stream the summary call and the plan call run     *)
(* side by side and may complete in either order; nothing is emitted while *)
(* one of them is still running, and the combined result is emitted in the *)
(* step that finds both completed: the summary's text when both returned,  *)
(* an exception when one of them raised.                                   *)
C17_CombinedAfterBothComplete ==
    /\ [](Bootstrapping => outcome = NoOutcome)
    /\ [][(Bootstrapping /\ outcome' # outcome)
          => /\ pc = "join"
             /\ summary_result.status \in {"returned", "raised"}
             /\ plan_state \in {"done", "raised"}
             /\ outcome'.status = "returned"
                    => /\ summary_result.status = "returned"
                       /\ plan_state = "done"
                       /\ outcome'.value = summary_result.value]_vars

C17_Witness ==
    /\ kind = "start_session_stream"
    /\ pc = "join"
    /\ summary_result.status = "returned"
    /\ plan_state = "running"
    /\ outcome = NoOutcome
    /\ conversation_history = <<>>

(* The other completion order: the plan is done, the summary still waits   *)
(* for an inference answer.                                                *)
PlanCompletesFirst ==
    /\ kind = "start_session_stream"
    /\ pc = "await"
    /\ plan_state = "done"
    /\ outcome = NoOutcome

(* The two operations have not both completed yet.                         *)
BeforeJoin ==
    /\ kind = "start_session_stream"
    /\ \/ pc \in {"await", "dispatch"}
       \/ pc = "join" /\ plan_state = "running"

(* C18 as stated: while the two operations of the bootstrap are still      *)
(* running, neither the catalog nor the transcript is mutated.             *)
C18_NoMutationBeforeJoin ==
    [][BeforeJoin
       => UNCHANGED <<conversation_history, lists, agent_images,
                      extractor_images, extraction_count>>]_vars

(* C18 as amended: during the bootstrap the transcript is appended to only *)
(* in the step that follows the join; the catalog and the counter are      *)
(* written before the join, by the extract calls of the summary operation  *)
(* and by nothing else: a step of the plan operation changes neither, and  *)
(* the step after the join rebinds the references to the list they already *)
(* held and leaves its contents as they are.                               *)
C18_TranscriptAfterJoinCatalogBySummary ==
    [][Bootstrapping
       => /\ BeforeJoin => UNCHANGED conversation_history
          /\ <<Catalog, AgentCatalog, extraction_count>>'
                 # <<Catalog, AgentCatalog, extraction_count>>
                 => /\ pc = "dispatch"
                    /\ UNCHANGED <<plan_state, plan_result>>
                    /\ IsPrefix(Catalog, Catalog')
                    /\ AgentCatalog' = Catalog'
          /\ conversation_history' # conversation_history
                 => /\ pc = "join"
                    /\ plan_state = "done"
                    /\ summary_result.status = "returned"
                    /\ conversation_history' =
                           Append(conversation_history,
                                  Msg("assistant", summary_result.value))]_vars

C18_Witness ==
    /\ kind = "start_session_stream"
    /\ pc = "await"
    /\ plan_state = "running"
    /\ ~is_restored
    /\ Len(Catalog) = 1
    /\ extraction_count = 1
    /\ conversation_history = <<>>

(* C20: a user turn that returns appends two entries to the transcript,    *)
(* the user message and then the answer it returns, in one step after the  *)
(* tool-call loop has ended; in every other step of a user turn, a step    *)
(* that ends the turn with an exception included, the transcript is left   *)
(* as it is; no step removes, reorders or rewrites an entry.               *)
C20_TurnAppendsUserThenAnswer ==
    [][/\ IsPrefix(conversation_history, conversation_history')
       /\ (UserTurn /\ pc # "idle" /\ pc' = "idle" /\ outcome'.status = "returned")
              => /\ pc = "await"
                 /\ conversation_history' =
                        conversation_history \o
                            <<Msg("user", "question"),
                              Msg("assistant", outcome'.value)>>
       /\ (UserTurn /\ pc # "idle" /\ outcome'.status # "returned")
              => UNCHANGED conversation_history]_vars

C20_Witness ==
    /\ UserTurn
    /\ pc = "idle"
    /\ outcome.status = "returned"
    /\ dispatch_rounds >= 1
    /\ ~is_restored
    /\ Len(conversation_history) = 3
    /\ conversation_history[2] = Msg("user", "question")
    /\ conversation_history[3] = Msg("assistant", outcome.value)

(***************************************************************************)
(* Turns and sessions at the chat endpoint.                                *)
(***************************************************************************)
TurnsInProgress ==
    { r \in DOMAIN handlers :
          handlers[r].session = "this" /\ handlers[r].pc \in {"turn", "adding"} }

(* C16: at no time are two turns of one session in progress: a chat        *)
(* request for a session is taken up only when no other turn of that       *)
(* session is reading or writing its transcript, catalog or stage.         *)
C16_OneTurnAtATime == Cardinality(TurnsInProgress) <= 1

OtherSessionStep ==
    \E r \in DOMAIN handlers :
        handlers[r].session = "other" /\ handlers'[r] # handlers[r]

(* C19: a step of a turn of another session changes nothing that a turn of *)
(* this session reads or writes: not its transcript, catalog, counter or   *)
(* stage, and not the profile its update_user_profile reads and writes.    *)
C19_SessionsIndependent ==
    [][OtherSessionStep
       => UNCHANGED <<conversation_history, current_stage_id, current_section,
                      lists, agent_images, extractor_images, extraction_count,
                      key_points, db_key_points>>]_vars

(***************************************************************************)
(* Restarts.                                                               *)
(***************************************************************************)
(* C21: the session reconstructed after a restart has the conversational   *)
(* state the session had before it: the same transcript, the same catalog, *)
(* and the same current stage, focus and reading plan.                     *)
C21_RestoreKeepsConversationalState ==
    [][RestoreSession
       => /\ conversation_history' = conversation_history
          /\ Catalog' = Catalog
          /\ current_stage_id' = current_stage_id
          /\ current_section' = current_section
          /\ reading_plan' = reading_plan]_vars

(***************************************************************************)
(* Bounding boxes and crop regions.                                        *)
(***************************************************************************)
Fraction(c, extent) == TruncDiv(c * extent, Unit)
PerMille(c, extent) == TruncDiv(c * extent, 1000 * Unit)
Pixel(c) == TruncDiv(c, Unit)

(* C22: the convention of a bounding box is chosen by its largest          *)
(* coordinate alone: at most 1, the box is fractional in the order         *)
(* [x_min, y_min, x_max, y_max]; above 1 and at most 1000, it is per-mille *)
(* in the order [y_min, x_min, y_max, x_max]; above 1000, it is in pixels  *)
(* in the order [x_min, y_min, x_max, y_max], taken as it is (a whole      *)
(* number of pixels is kept, a fraction of a pixel is cut off).  This is   *)
(* the box before padding and clamping.                                    *)
C22_ConventionByMagnitude ==
    crop.applied =>
        LET b == crop.bbox
            w == crop.size.width
            h == crop.size.height
            m == MaxOf(b)
        IN  /\ m <= Unit =>
                  crop.pixels = << Fraction(b[1], w), Fraction(b[2], h),
                                   Fraction(b[3], w), Fraction(b[4], h) >>
            /\ (m > Unit /\ m <= 1000 * Unit) =>
                  crop.pixels = << PerMille(b[2], w), PerMille(b[1], h),
                                   PerMille(b[4], w), PerMille(b[3], h) >>
            /\ m > 1000 * Unit =>
                  /\ crop.pixels = << Pixel(b[1]), Pixel(b[2]), Pixel(b[3]), Pixel(b[4]) >>
                  /\ \A i \in 1..4 : b[i] % Unit = 0 => crop.pixels[i] * Unit = b[i]

(* A per-mille box whose two axes differ has been converted.               *)
C22_Witness ==
    /\ crop.applied
    /\ MaxOf(crop.bbox) > Unit
    /\ MaxOf(crop.bbox) <= 1000 * Unit
    /\ crop.bbox[1] # crop.bbox[2]
    /\ crop.pixels[1] # TruncDiv(crop.bbox[1] * crop.size.width, 1000 * Unit)
    /\ Len(Catalog) = 1

(* C23: whatever the box and the image size, a crop region that is used    *)
(* lies within [0, width] x [0, height] and has positive width and height; *)
(* a box whose region has no positive width or height is rejected and      *)
(* leaves no record in the catalog.                                        *)
C23_CropRegionWithinImage ==
    crop.applied =>
        LET rect == crop.rect
            w == crop.size.width
            h == crop.size.height
        IN  /\ Catalog # <<>> =>
                  /\ 0 <= rect[1] /\ rect[1] < rect[3] /\ rect[3] <= w
                  /\ 0 <= rect[2] /\ rect[2] < rect[4] /\ rect[4] <= h
            /\ (rect[3] - rect[1] <= 0 \/ rect[4] - rect[2] <= 0) =>
                  /\ Catalog = <<>>
                  /\ extraction_count = 0
                  /\ ~last_result.success

(* A box with a negative coordinate and a corner beyond the image has been *)
(* cropped and recorded; an inverted box would be rejected as well.        *)
C23_Witness ==
    /\ crop.applied
    /\ \E i \in 1..4 : crop.bbox[i] < 0
    /\ crop.pixels[3] > crop.size.width
    /\ Len(Catalog) = 1

ScenarioBox == << 100 * Unit, 100 * Unit, 400 * Unit, 1000 * Unit >>

Scenario ==
    /\ crop.applied
    /\ crop.bbox = ScenarioBox
    /\ crop.size = [width |-> 800, height |-> 1000]
    /\ last_ext.detections[1].crop = "ok"

(* C24: the box [100, 100, 400, 1000] on an image of 800 x 1000 is taken   *)
(* as pixel coordinates and cropped to [90, 90, 410, 1000]; the catalog    *)
(* holds one record and the counter is 1.                                  *)
C24_ScenarioTakenAsPixels ==
    Scenario =>
        /\ crop.pixels = <<100, 100, 400, 1000>>
        /\ crop.rect = <<90, 90, 410, 1000>>
        /\ Len(Catalog) = 1
        /\ extraction_count = 1

(* C24, amended: the largest coordinate of the box is 1000, so the box is  *)
(* taken as per-mille in the order [y_min, x_min, y_max, x_max]: in pixels *)
(* it is [80, 100, 800, 400], and it is cropped to [70, 90, 800, 410]; the *)
(* catalog holds one record and the counter is 1.                          *)
C24_ScenarioTakenAsPerMille ==
    Scenario =>
        /\ crop.pixels = <<80, 100, 800, 400>>
        /\ crop.rect = <<70, 90, 800, 410>>
        /\ Len(Catalog) = 1
        /\ extraction_count = 1
        /\ last_result.success
        /\ Len(last_result.extracted_images) = 1

C24_Witness == Scenario /\ Len(Catalog) = 1

(***************************************************************************)
(* The profile.                                                            *)
(***************************************************************************)
NoDuplicates(q) == \A i, j \in 1..Len(q) : q[i] = q[j] => i = j

ProfileDispatched ==
    /\ pc = "await"
    /\ pc' = "await"
    /\ last_call'.name = "update_user_profile"

KeyPointOf(fc) == Get(EffectiveArgs(fc), "key_point", "")

StoreAnswers(ext) == has_callback /\ ~ext.db_raises

(* C25: update_user_profile with an empty insight returns a structured     *)
(* error; with an insight that is already recorded it returns success and  *)
(* leaves the profile unchanged; the insights of the profile never hold    *)
(* the same text twice.                                                    *)
C25_DuplicateInsightSucceeds ==
    [][ProfileDispatched
       => /\ ~Truthy(KeyPointOf(last_call')) =>
                 /\ Failed(last_result')
                 /\ "error" \in DOMAIN last_result'
          /\ (Truthy(KeyPointOf(last_call')) /\ InSeq(KeyPointOf(last_call'), key_points)) =>
                 /\ last_result'.success
                 /\ UNCHANGED <<key_points, db_key_points>>
          /\ NoDuplicates(key_points')
          /\ NoDuplicates(db_key_points')]_vars

(* C25, amended: update_user_profile with an empty insight returns a       *)
(* structured error; with an insight that is already recorded it leaves    *)
(* the profile unchanged, and it returns success when the profile store is *)
(* attached and answers, and a structured error when the store is not      *)
(* attached or raises; the insights of the profile never hold the same     *)
(* text twice.                                                             *)
C25_DuplicateInsightLeavesProfile ==
    [][ProfileDispatched
       => /\ ~Truthy(KeyPointOf(last_call')) =>
                 /\ Failed(last_result')
                 /\ "error" \in DOMAIN last_result'
                 /\ UNCHANGED <<key_points, db_key_points>>
          /\ (Truthy(KeyPointOf(last_call')) /\ InSeq(KeyPointOf(last_call'), key_points)) =>
                 /\ UNCHANGED <<key_points, db_key_points>>
                 /\ IF StoreAnswers(last_ext')
                    THEN last_result'.success
                    ELSE Failed(last_result') /\ "error" \in DOMAIN last_result'
          /\ NoDuplicates(key_points')
          /\ NoDuplicates(db_key_points')]_vars

(* An insight has been recorded, and the call that gave it again has       *)
(* succeeded without a second entry.                                       *)
C25_Witness ==
    /\ pc = "await"
    /\ last_call.name = "update_user_profile"
    /\ last_result.success
    /\ last_result.message = "Key insight already recorded"
    /\ key_points = <<"k2", "k1">>

(***************************************************************************)
(* Progress.                                                               *)
(***************************************************************************)
TurnRunning == pc \in {"await", "dispatch", "join"}

(* C26: a turn does not hang when an external inference or detector call   *)
(* never returns: every turn that is running ends, with an answer or with  *)
(* an error reported to the caller.                                        *)
C26_TurnNeverHangs == TurnRunning ~> ~TurnRunning

(***************************************************************************)
(* The upload.                                                             *)
(***************************************************************************)
(* C27: when timeout_seconds have elapsed and the upload has not           *)
(* completed, upload_file raises TimeoutError to its caller without        *)
(* waiting for the upload to finish: it is never found, the time being     *)
(* over and the TimeoutError on its way, waiting for an upload that is     *)
(* still running.                                                          *)
C27_TimeoutRaisedWithoutWaiting ==
    ~(upload.pc = "exit_timeout" /\ upload.worker = "running")

(***************************************************************************)
(* The instructions resubmitted after a round of tool calls.               *)
(***************************************************************************)
AfterRound == pc = "await" /\ dispatch_rounds > 0

EnumeratesCatalog(instructions) ==
    /\ Len(instructions.images) = Len(Catalog)
    /\ \A i \in 1..Len(Catalog) :
           /\ instructions.images[i].index = i - 1
           /\ instructions.images[i].title = Catalog[i].title
           /\ instructions.images[i].page = Catalog[i].page
           /\ instructions.images[i].path = Catalog[i].path_relative

BootstrapReturnsPlan ==
    /\ pc = "join"
    /\ pc' = "idle"
    /\ kind = "start_session_stream"
    /\ plan_result # <<>>

(* C29: when the bootstrap returns having produced a non-empty reading     *)
(* plan, the session's reading_plan holds that plan from then on: the join *)
(* that combines the two results leaves the plan of the plan thread in     *)
(* reading_plan, where the later context builds read it.                   *)
C29_BootstrapPlanIsStored ==
    [][BootstrapReturnsPlan => reading_plan' = plan_result]_vars

(***************************************************************************)
(* The conversation submitted to inference.                                *)
(***************************************************************************)
ContentsBuilt == contents = NoContents /\ contents' # NoContents

WindowLen(history) == Smaller(Len(history), 20)

(* The content c carries the transcript entry msg: its role, and its text, *)
(* cut in the middle exactly when longer than 2000 characters.             *)
Carries(c, msg) ==
    /\ c.role = (IF msg.role = "assistant" THEN "model" ELSE "user")
    /\ Len(c.parts) = 1
    /\ c.parts[1].text = msg.content.text
    /\ c.parts[1].cut = (msg.content.len > 2000)

(* C30: the conversation submitted for a turn holds the last 20 entries of *)
(* the transcript (all of them when there are at most 20), in their order, *)
(* and after them one user content with the current message, which is its  *)
(* last element; building it leaves the transcript as it was.              *)
C30_ContentsAreTrailingWindow ==
    [][ContentsBuilt
       => LET h == conversation_history
              n == WindowLen(h)
          IN  /\ Len(contents') = n + 1
              /\ \A i \in 1..n : Carries(contents'[i], h[Len(h) - n + i])
              /\ contents'[n + 1].role = "user"
              /\ \E m \in CurrentMessages :
                     contents'[n + 1].parts[2] = [text |-> m]
              /\ conversation_history' = h]_vars

(* A transcript of more than 20 entries, one of the last 20 being cut.      *)
C30_Witness ==
    /\ contents # NoContents
    /\ Len(conversation_history) > 20
    /\ Len(contents) = 21
    /\ contents[1].parts[1].text = Len(conversation_history) - 19
    /\ \E i \in 1..20 : contents[i].parts[1].cut
    /\ contents[21].parts[2].text = "question"

(***************************************************************************)
(* The pages of the records an extract call appends.                       *)
(***************************************************************************)
CatalogAfter == lists'[extractor_images']

Appended == { i \in 1..Len(CatalogAfter) : i > Len(Catalog) }

(* C31: every record an extract call appends is on a page that the call    *)
(* requested, that is a page of the document (1 <= page <= NumPages) and   *)
(* that rendered, and its file is named after that page; the call appends  *)
(* no more records than the detector named figures on such pages, so a     *)
(* detection on any other page gives no record and no file.                *)
C31_RecordsOnRequestedRenderedPages ==
    [][ExtractDispatched
       => LET images == Get(EffectiveArgs(last_call'), "images", <<>>)
              ext == last_ext'
          IN  /\ \A i \in Appended :
                     /\ CatalogAfter[i].page \in PageRequests(images)
                     /\ 1 <= CatalogAfter[i].page
                     /\ CatalogAfter[i].page <= NumPages
                     /\ CatalogAfter[i].page \notin ext.render_fails
                     /\ CatalogAfter[i].path.page = CatalogAfter[i].page
              /\ Cardinality(Appended) <= Cardinality(Surviving(images, ext))
              /\ Surviving(images, ext) = {} => UNCHANGED <<lists, extraction_count>>]_vars

(* The detector named a figure that would crop and save, on a page the     *)
(* call did not render; an earlier call appended a record.                 *)
C31_Witness ==
    /\ last_call.name = "extract_images"
    /\ last_ext.detector = "ok"
    /\ Len(last_ext.detections) = 1
    /\ last_ext.detections[1].crop = "ok"
    /\ last_ext.detections[1].page \notin Rendered(Get(LastArgs, "images", <<>>), last_ext)
    /\ Rendered(Get(LastArgs, "images", <<>>), last_ext) # {}
    /\ Failed(last_result)
    /\ Catalog # <<>>
    /\ extraction_count > 0

(***************************************************************************)
(* The extraction counter.                                                 *)
(***************************************************************************)
(* C32: the counter advances by one for each record appended and in no     *)
(* other step: an extract call advances the counter and lengthens the      *)
(* catalog by the number of detections it cropped and saved, so that a     *)
(* detection skipped for its box, a failed write or a zero-byte write      *)
(* changes neither; every other step leaves the counter alone; and in a    *)
(* session that was not restored the counter is the size of the catalog.   *)
C32_CounterCountsRecords ==
    [][/\ ExtractDispatched
          => LET images == Get(EffectiveArgs(last_call'), "images", <<>>)
                 saved == IF images = <<>> \/ last_ext'.open_raises THEN {}
                          ELSE Saved(images, last_ext')
             IN  /\ extraction_count' = extraction_count + Cardinality(saved)
                 /\ Len(CatalogAfter) = Len(Catalog) + Cardinality(saved)
       /\ ~ExtractDispatched
          => /\ extraction_count' = extraction_count
             /\ Len(CatalogAfter) = Len(Catalog)
       /\ ~is_restored' => extraction_count' = Len(CatalogAfter)]_vars

(* A detection was skipped for a zero-byte write in a session that was not *)
(* restored and holds a record.                                            *)
C32_Witness ==
    /\ ~is_restored
    /\ last_call.name = "extract_images"
    /\ Len(last_ext.detections) = 1
    /\ last_ext.detections[1].crop = "zero_byte"
    /\ last_ext.detections[1].page \in Rendered(Get(LastArgs, "images", <<>>), last_ext)
    /\ Failed(last_result)
    /\ extraction_count = 1
    /\ Len(Catalog) = 1

(***************************************************************************)
(* Texts that do not parse.                                                *)
(***************************************************************************)
DetectorTextInvalid(text) == ~JsonLoads(StripCodeFence(text)).decoded

PlanTextInvalid(text) == ~JsonLoads(FirstBalancedObject(StripCodeFence(text))).decoded

PlanAnswered == plan_state = "running" /\ plan_state' # "running"

BootstrapJoined == pc = "join" /\ pc' # "join"

(* C33: a detector text that is not valid JSON after the cleanup makes the *)
(* extract call answer with a structured failure, the catalog and the      *)
(* counter unchanged and the loop going on; a plan text that is not valid  *)
(* JSON after the cleanup makes the plan thread return the empty plan      *)
(* without raising, and the join, when the summary thread returned, then   *)
(* returns the summary with that empty plan.                               *)
C33_ParseErrorsGiveEmptyResults ==
    [][/\ (ExtractDispatched /\ DetectorTextInvalid(parsed'.detector_text))
          => /\ Failed(last_result')
             /\ last_result'.extracted_images = <<>>
             /\ last_result'.message
                    = "Could not detect any figures matching the descriptions"
             /\ pc' = "await"
             /\ UNCHANGED <<lists, agent_images, extractor_images, extraction_count>>
       /\ (PlanAnswered /\ PlanTextInvalid(parsed'.plan_text))
          => /\ plan_state' = "done"
             /\ plan_result' = <<>>
       /\ (/\ BootstrapJoined
           /\ parsed.plan_text # <<>>
           /\ PlanTextInvalid(parsed.plan_text)
           /\ summary_result.status = "returned")
          => /\ pc' = "idle"
             /\ outcome' = Returned(summary_result.value)
             /\ plan_result = <<>>]_vars

(* The bootstrap has returned after a detector text and a plan text that   *)
(* did not parse.                                                          *)
C33_Witness ==
    /\ pc = "idle"
    /\ kind = "start_session_stream"
    /\ outcome.status = "returned"
    /\ parsed.plan_text = <<"{", "items">>
    /\ parsed.detector_text = <<"fence_json", "prose", "fence">>
    /\ Failed(last_result)
    /\ Catalog = <<>>

(***************************************************************************)
(* Prose around the detector's object.                                     *)
(***************************************************************************)
ValidObjects == { text \in Texts : JsonLoads(text).decoded }

(* C34: a detector text made of prose, one valid JSON object and prose     *)
(* again is parsed to the detections of that object: the extract call it   *)
(* answers goes on with the detections the object alone would give.        *)
C34_DetectorFindsObjectInProse ==
    [][ExtractDispatched
       => \A object \in ValidObjects :
              parsed'.detector_text = <<"prose">> \o object \o <<"prose">>
                  => /\ last_ext'.detector = "ok"
                     /\ last_ext'.detections = DetectorParse(object).detections]_vars

(***************************************************************************)
(* One catalog.                                                            *)
(***************************************************************************)
(* C35: after every step the orchestrator's reference and the extractor's  *)
(* reference are bound to one list, so that the orchestrator's view holds  *)
(* the extractor's records in their order; and the catalog changes only    *)
(* while a tool call is dispatched, by records appended behind the ones it *)
(* held, each counted by the extraction counter.                           *)
C35_OneCatalogForBoth ==
    [][/\ agent_images' = extractor_images'
       /\ AgentCatalog' = Catalog'
       /\ Catalog' # Catalog
              => /\ pc = "dispatch"
                 /\ IsPrefix(Catalog, Catalog')
                 /\ extraction_count' - extraction_count = Len(Catalog') - Len(Catalog)]_vars

(* The bootstrap has returned with records the summary thread extracted.   *)
C35_Witness ==
    /\ pc = "idle"
    /\ kind = "start_session_stream"
    /\ outcome.status = "returned"
    /\ Catalog # <<>>
    /\ AgentCatalog = Catalog
    /\ agent_images = extractor_images

(***************************************************************************)
(* Concurrent add_user_key_point calls.                                    *)
(***************************************************************************)
AllHandlersDone == \A r \in Requests : handlers[r].pc = "done"

(* C38: once every handler has finished, every insight a session recorded  *)
(* because add_user_key_point returned True for it is in the stored        *)
(* profile, and the stored profile holds no insight twice.                 *)
C38_AcknowledgedInsightsPersist ==
    AllHandlersDone
        => /\ \A i \in 1..Len(key_points) : InSeq(key_points[i], db_key_points)
           /\ NoDuplicates(db_key_points)

(***************************************************************************)
(* The chat endpoint, the delete endpoint and the stored rows.             *)
(***************************************************************************)
Occurrences(q, x) == Cardinality({ i \in 1..Len(q) : q[i] = x })

Submits(content, x) ==
    /\ content.role = "user"
    /\ \E j \in 1..Len(content.parts) :
           /\ "text" \in DOMAIN content.parts[j]
           /\ content.parts[j].text = x

TurnFinishes(r) == handlers[r].pc = "final" /\ handlers'[r].pc = "save"

(* C36: when a chat turn completes, the transcript of its agent holds the  *)
(* user's message once, immediately followed by the answer, and the        *)
(* contents the turn submitted to inference hold the message once.         *)
C36_MessageOnceInTranscriptAndRequest ==
    [][\A r \in Requests :
          TurnFinishes(r)
              => LET history == agents'[handlers[r].agent].conversation_history
                     submitted == handlers[r].contents
                 IN  /\ Occurrences(history, Msg("user", Text(r))) = 1
                     /\ \E i \in 1..(Len(history) - 1) :
                            /\ history[i] = Msg("user", Text(r))
                            /\ history[i + 1] = Msg("assistant", Text(r))
                     /\ Cardinality({ i \in 1..Len(submitted) :
                                          Submits(submitted[i], r) }) = 1]_vars

DeleteCompleted == \E r \in Requests : handlers[r].op = "delete" /\ handlers[r].pc = "done"

(* C37: in every state after the delete endpoint has completed, no session *)
(* of the paper is registered and the paper has neither a reading-session  *)
(* row nor a message row.                                                  *)
C37_DeletedPaperLeavesNothing ==
    DeleteCompleted
        => /\ reading_sessions = {}
           /\ ~db.reading_sessions
           /\ db.messages = <<>>

StatusStrings == {"Thinking", "Executing", "Generating final response"}

(* C39: what a turn has yielded is a sequence of status strings, followed  *)
(* by the final response once the turn has completed and by nothing after  *)
(* it; and at the step that yields the final response the transcript of    *)
(* the agent ends with the user's message and the answer, and the agent's  *)
(* status callback is the one it had when the turn began.                  *)
C39_StreamEndsWithOneResponse ==
    /\ [](\A r \in Requests :
             LET updates == handlers[r].updates IN
             /\ \A i \in 1..Len(updates) :
                    /\ updates[i] \in StatusStrings \cup {"response"}
                    /\ updates[i] = "response"
                           => i = Len(updates) /\ handlers[r].pc \in {"save", "done"}
             /\ handlers[r].pc = "save"
                    => updates # <<>> /\ updates[Len(updates)] = "response")
    /\ [][\A r \in Requests :
             TurnFinishes(r)
                 => LET agent == agents'[handlers[r].agent]
                        history == agent.conversation_history
                    IN  /\ handlers'[r].updates = Append(handlers[r].updates, "response")
                        /\ Len(history) >= 2
                        /\ SubSeq(history, Len(history) - 1, Len(history))
                               = <<Msg("user", Text(r)), Msg("assistant", Text(r))>>
                        /\ agent.status_callback = handlers[r].original_callback]_vars

(* A turn of two rounds of tool calls has yielded its final response to    *)
(* the chat handler, which had installed its callback on the agent.        *)
C39_Witness ==
    \E r \in Requests :
        /\ handlers[r].pc = "save"
        /\ handlers[r].rounds = MaxCalls
        /\ handlers[r].original_callback = Callback("caller", r)
        /\ agents[handlers[r].agent].status_callback = Callback("caller", r)
        /\ handlers[r].updates[Len(handlers[r].updates)] = "response"

====
